---- MODULE Spec2Model ----
(***************************************************************************)
(* A model of sonos-manager: the Controller actor (src/src/controller.rs), *)
(* its subscription workers (src/src/subscriber.rs) and the zone action    *)
(* dispatcher (src/src/zoneaction.rs, src/src/mediasource.rs).             *)
(*                                                                         *)
(* The Controller task is the only mutator of System; each handler is one  *)
(* action.  A subscription worker is a separate task: one action per       *)
(* branch of the select! of Subscriber::spawn_task.  The network is the    *)
(* environment: the set of devices that answer, the topologies devices     *)
(* report, the results of                                                  *)
(* remote calls.                                                           *)
(***************************************************************************)
EXTENDS Integers, Sequences, FiniteSets, TLC

\* ------------------------------------------------------------------ bounds

\* Size of the pool of worker slots (tasks spawned and not yet reclaimed).
MaxWorkers == 9
\* Number of commands the clients send in one behaviour.
MaxCmds == 1
\* Number of events the devices publish in one behaviour.
MaxEvents == 1
\* Number of times a device leaves the network in one behaviour.
MaxFaults == 1

\* ------------------------------------------------------- program constants

\* i32::MAX and i32::MIN: the width of ZoneAction::SeekRelTrack's operand.
I32Max == 2147483647
I32Min == -2147483647 - 1
\* mpsc::channel(32) in Manager::try_new_with_room.
ChannelCapacity == 32

\* ------------------------------------------------------------ basic values

NoSub == 0
None == "None"
WorkerIds == 1..MaxWorkers

ZGT == "ZoneGroupTopology"
AVT == "AVTransport"

\* str::eq_ignore_ascii_case compares the ASCII-lowercased strings.
Lower(s) ==
    CASE s = "RINCON_A" -> "rincon_a"
      [] s = "RINCON_B" -> "rincon_b"
      [] s = "Kitchen"  -> "kitchen"
      [] s = "KITCHEN"  -> "kitchen"
      [] s = "Den"      -> "den"
      [] s = "CurrentTrack" -> "currenttrack"
      [] s = "Attic"    -> "attic"
      [] s = "Morning Mix"  -> "morning mix"
      [] s = "MORNING MIX"  -> "morning mix"
      [] s = "Evening"      -> "evening"
      [] OTHER -> s

eq_ignore_ascii_case(a, b) == Lower(a) = Lower(b)

\* The devices of the network, named by their lowercased UUID.
Devices == {"rincon_a", "rincon_b"}

\* The services in a device's description (rupnp Device::find_service).
DeviceServices(d) == {ZGT, AVT}

find_service(d, urn) == urn \in DeviceServices(d)

Info(u, n, l) == [uuid |-> u, name |-> n, loc |-> l]

\* Topology = Vec<(Uuid, Vec<SpeakerInfo>)> (types.rs:37).
\* The zone group states the devices report in this model.
TopoOneGroup   == << <<"RINCON_A", <<Info("RINCON_A", "Kitchen", "L1"), Info("RINCON_B", "Den", "L1")>> >> >>
TopoTwoGroups  == << <<"RINCON_A", <<Info("RINCON_A", "Kitchen", "L1")>> >>,
                     <<"RINCON_B", <<Info("RINCON_B", "Den", "L1")>> >> >>
TopoOnlyA      == << <<"RINCON_A", <<Info("RINCON_A", "Kitchen", "L1")>> >> >>
TopoSameNames  == << <<"RINCON_A", <<Info("RINCON_A", "Kitchen", "L1")>> >>,
                     <<"RINCON_B", <<Info("RINCON_B", "Kitchen", "L2")>> >> >>
TopoBLeads     == << <<"rincon_b", <<Info("RINCON_B", "Den", "L2"), Info("rincon_a", "Kitchen", "L1")>> >> >>
TopoEmpty      == << >>

Topologies == {TopoOneGroup, TopoTwoGroups, TopoOnlyA, TopoSameNames, TopoBLeads, TopoEmpty}

\* AVStatus = Vec<(String, String)>: the LastChange values of an AVTransport event.
AVStatusValues == { << <<"TransportState", "PLAYING">> >>,
                    << <<"TransportState", "PLAYING">>, <<"CurrentTrack", "1">> >> }

OneAV == {<< <<"CurrentTrack", "1">> >>}

\* ------------------------------------------------------------------ events

NoOp == [type |-> "NoOp"]
TopoUpdate(u, t) == [type |-> "TopoUpdate", uuid |-> u, topology |-> t]
AVTransUpdate(u, d) == [type |-> "AVTransUpdate", uuid |-> u, data |-> d]
SubscribeError(u, urn) == [type |-> "SubscribeError", uuid |-> u, urn |-> urn]

\* --------------------------------------------------------------- variables

VARIABLES
    speakerdata,             \* System.speakerdata: Seq of SpeakerData
    topology,                \* System.topology
    queued_event_handles,    \* System.queued_event_handles: Seq of receivers (worker ids)
    topology_subscription,   \* System.topology_subscription: a worker id or NoSub
    event_stream,            \* run()'s SelectAll: the receivers folded in
    pc,                      \* the Controller task's position
    cmdq,                    \* the mpsc command channel: Seq of command ids
    tx_alive,                \* some CmdSender still exists
    nsent,                   \* commands sent so far
    replies,                 \* per command id: Responses sent on its reply-port
    workers,                 \* the worker slots: task state and watch channel
    online,                  \* devices that answer on the network
    nevents,                 \* events the devices published so far
    nfaults,                 \* times a device left the network so far
    last                     \* what the step just taken did (dispatch, event, update)

vars == <<speakerdata, topology, queued_event_handles, topology_subscription,
          event_stream, pc, cmdq, tx_alive, nsent, replies, workers, online,
          nevents, nfaults, last>>

\* The network and its counters.
env == <<online, nevents, nfaults>>

sysvars == <<speakerdata, topology, queued_event_handles, topology_subscription,
             event_stream, pc>>

\* ----------------------------------------------------------- worker slots

FreeWorker == [st |-> "free", svc |-> None, uuid |-> None, dev |-> None,
               val |-> NoOp, unseen |-> FALSE, rx |-> FALSE, ver |-> 0, rv |-> 0,
               lost |-> 0, unsub |-> FALSE]

\* Task states in which the task's future is gone (and with it the Sender,
\* except after Ok(tx), where the JoinHandle keeps it).
Terminated == {"done", "failed", "aborted"}
\* Awaits of the task: abort cancels the task at any of them.
Alive == {"subscribing", "running"}

\* The Sender of the channel is dropped.
SenderGone(w) == w.st \in {"failed", "aborted"}

\* No update_from_topology was made.
NoUpdate == [done |-> FALSE, topology |-> << >>, ok |-> FALSE, gone |-> {}]

\* The value of last after a step that records nothing.
Nothing == [op |-> "none", ap |-> NoUpdate]


\* ------------------------------------------------ Subscriber (subscriber.rs)

HasFree(ws) == \E w \in WorkerIds : ws[w].st = "free"

SmallestFree(ws) ==
    CHOOSE w \in WorkerIds : ws[w].st = "free" /\ \A v \in 1..(w - 1) : ws[v].st # "free"

\* Subscriber::subscribe: the watch channel starts at NoOp, marked as read,
\* and the task is spawned; it first awaits service.subscribe.
NewWorker(svc, uuid, dev) ==
    [st |-> "subscribing", svc |-> svc, uuid |-> uuid, dev |-> dev,
     val |-> NoOp, unseen |-> FALSE, rx |-> TRUE, ver |-> 0, rv |-> 0,
     lost |-> 0, unsub |-> FALSE]

\* A drop of the Subscriber that leaves its task running.
Detached(wr) == wr

\* impl Drop for Subscriber: JoinHandle::abort cancels the task at its await;
\* a task that has finished is not affected.
AbortTask(wr) == IF wr.st \in Alive THEN [wr EXCEPT !.st = "aborted"] ELSE wr

DropSubscriber(ws, w) ==
    IF w = NoSub THEN ws ELSE [ws EXCEPT ![w] = AbortTask(ws[w])]

\* watch::Sender::send: stores the value, which advances the version of the
\* channel, and marks it unseen; with no receiver left it fails and stores
\* nothing (the callers ignore the error).
tx_send(wr, ev) ==
    IF wr.rx THEN [wr EXCEPT !.val = ev, !.unseen = TRUE, !.ver = wr.ver + 1] ELSE wr

\* A task that reports the loss of its subscription twice.
SubscribeFailedTwice(wr) ==
    [tx_send(wr, SubscribeError(wr.uuid, wr.svc)) EXCEPT !.lost = wr.lost + 2, !.st = "failed"]

\* The error path of every service.subscribe in spawn_task: send
\* SubscribeError once, then return Err (the task ends, the Sender drops).
SubscribeFailed(wr) ==
    [tx_send(wr, SubscribeError(wr.uuid, wr.svc)) EXCEPT !.lost = wr.lost + 1, !.st = "failed"]

\* The Subscriber handles the System holds.
Handles(sd, ts) == ({ts} \cup {sd[i].sub : i \in DOMAIN sd}) \ {NoSub}

\* A slot whose task is gone, whose receiver is dropped and whose Subscriber
\* is dropped holds nothing of the program any more.
Reclaim(ws, held) ==
    [w \in WorkerIds |->
        IF ws[w].st \in Terminated /\ ~ws[w].rx /\ w \notin held THEN FreeWorker ELSE ws[w]]

WorkerStep(w, wr) ==
    /\ workers' = Reclaim([workers EXCEPT ![w] = wr], Handles(speakerdata, topology_subscription))
    /\ last' = Nothing
    /\ UNCHANGED <<sysvars, cmdq, tx_alive, nsent, replies, online, nfaults>>

\* spawn_task: the first service.subscribe(&url, TIMEOUT_SEC).await
WSubscribe(w) ==
    /\ workers[w].st = "subscribing"
    /\ UNCHANGED nevents
    /\ WorkerStep(w, IF workers[w].dev \in online
                     THEN [workers[w] EXCEPT !.st = "running"]
                     ELSE SubscribeFailed(workers[w]))

\* select!: stream.next() gave Some(Ok(state_vars)) and the variable parsed.
WEvent(w, topos, avs) ==
    /\ workers[w].st = "running"
    /\ workers[w].dev \in online
    /\ nevents < MaxEvents
    /\ nevents' = nevents + 1
    /\ \/ /\ workers[w].svc = ZGT
          /\ \E t \in topos : WorkerStep(w, tx_send(workers[w], TopoUpdate(workers[w].uuid, t)))
       \/ /\ workers[w].svc = AVT
          /\ \E d \in avs : WorkerStep(w, tx_send(workers[w], AVTransUpdate(workers[w].uuid, d)))

\* A task that a stream error ends: no fresh subscribe is attempted.
StreamErrorFatal(w) ==
    /\ workers[w].st = "running"
    /\ UNCHANGED nevents
    /\ WorkerStep(w, SubscribeFailed(workers[w]))

\* select!: stream.next() gave Some(Err(_)) or None: a fresh
\* service.subscribe is awaited, which replaces sid and stream or fails.
WStreamError(w) ==
    /\ workers[w].st = "running"
    /\ UNCHANGED nevents
    /\ WorkerStep(w, IF workers[w].dev \in online THEN workers[w]
                     ELSE SubscribeFailed(workers[w]))

\* select!: interval.tick(): renew_subscription failed, and so did the fresh
\* service.subscribe awaited after it.
WRenewFailed(w) ==
    /\ workers[w].st = "running"
    /\ workers[w].dev \notin online
    /\ UNCHANGED nevents
    /\ WorkerStep(w, SubscribeFailed(workers[w]))

\* select!: interval.tick(): renew_subscription succeeded (the else branch
\* only logs), or it failed and the fresh service.subscribe awaited after it
\* succeeded (sid and stream are replaced): nothing is sent.
WRenewed(w) ==
    /\ workers[w].st = "running"
    /\ workers[w].dev \in online
    /\ UNCHANGED nevents
    /\ WorkerStep(w, workers[w])

\* select!: tx.closed(): every receiver is dropped; unsubscribe, break, Ok(tx).
WClosed(w) ==
    /\ workers[w].st = "running"
    /\ ~workers[w].rx
    /\ UNCHANGED nevents
    /\ WorkerStep(w, [workers[w] EXCEPT !.unsub = TRUE, !.st = "done"])

\* ------------------------------------------------------------- environment

EnvStep ==
    /\ last' = Nothing
    /\ UNCHANGED <<sysvars, workers, nevents>>

GoOffline(d) ==
    /\ d \in online
    /\ nfaults < MaxFaults
    /\ nfaults' = nfaults + 1
    /\ online' = online \ {d}
    /\ EnvStep
    /\ UNCHANGED <<cmdq, tx_alive, nsent, replies>>

GoOnline(d) ==
    /\ d \notin online
    /\ UNCHANGED nfaults
    /\ online' = online \cup {d}
    /\ EnvStep
    /\ UNCHANGED <<cmdq, tx_alive, nsent, replies>>

\* The ids commands are sent under, in the order of the sends.
CmdIds == 1..(MaxCmds + 1)

\* Zone::action: tx.send(Command::DoZoneAction(..)) on the mpsc channel, for
\* clients that send n commands in all.
Send(n) ==
    /\ tx_alive
    /\ pc \notin {"start", "exited", "dropped", "aborted"}
    /\ nsent < n
    /\ Len(cmdq) < ChannelCapacity
    /\ nsent' = nsent + 1
    /\ cmdq' = Append(cmdq, nsent + 1)
    /\ EnvStep
    /\ UNCHANGED <<tx_alive, replies, online, nfaults>>

SendCmd == Send(MaxCmds)

\* The last CmdSender is dropped while the Controller task runs on (a
\* Controller run without a Manager, as test_controller does).
DropSenders ==
    /\ tx_alive
    /\ tx_alive' = FALSE
    /\ EnvStep
    /\ UNCHANGED <<cmdq, nsent, replies, online, nfaults>>


\* -------------------------------------------------- System (controller.rs)

\* The System as a value: sd speakerdata, topo topology, q queued_event_handles,
\* ts topology_subscription, ws the worker slots, ap the update_from_topology
\* made in this step (its argument, whether it returned Ok, and the
\* Subscribers of the records it removed).
\* full: the pool of worker slots ran out (the step is then not taken).
Sys == [sd |-> speakerdata, topo |-> topology, q |-> queued_event_handles,
        ts |-> topology_subscription, ws |-> workers, ap |-> NoUpdate, full |-> FALSE]

\* SpeakerData::new: no transport data, no transport subscription.
SpeakerData(info) ==
    [uuid |-> info.uuid, name |-> info.name, loc |-> info.loc, sub |-> NoSub, td |-> << >>]

RECURSIVE Flatten(_)
\* topology.iter().flat_map(|(_, infos)| infos)
Flatten(t) == IF t = << >> THEN << >> ELSE Head(t)[2] \o Flatten(Tail(t))

\* A search that compares the UUIDs letter by letter.
FindExact(sd, uuid) ==
    IF \E i \in DOMAIN sd : sd[i].uuid = uuid
    THEN CHOOSE i \in DOMAIN sd : sd[i].uuid = uuid /\ \A j \in 1..(i - 1) : sd[j].uuid # uuid
    ELSE 0

\* Position of the first record whose UUID matches, 0 when there is none
\* (iter().find(|sd| sd.speaker.uuid().eq_ignore_ascii_case(uuid))).
FindUuid(sd, uuid) ==
    IF \E i \in DOMAIN sd : eq_ignore_ascii_case(sd[i].uuid, uuid)
    THEN CHOOSE i \in DOMAIN sd :
            /\ eq_ignore_ascii_case(sd[i].uuid, uuid)
            /\ \A j \in 1..(i - 1) : ~eq_ignore_ascii_case(sd[j].uuid, uuid)
    ELSE 0

\* The device Speaker::from_speaker_info(info) fetches its description from.
DeviceOf(uuid) == Lower(uuid)

\* Speaker::from_speaker_info(info).await: Ok(Some(speaker)) iff the device answers.
from_speaker_info(uuid, on) == DeviceOf(uuid) \in on

\* Subscriber::subscribe: Err for an AVTransport service without a UUID,
\* else the channel is created and the task spawned: [ok, wr]
subscribe(svc, uuid, dev) ==
    IF svc = AVT /\ uuid = None THEN [ok |-> FALSE, wr |-> FreeWorker]
    ELSE [ok |-> TRUE, wr |-> NewWorker(svc, uuid, dev)]

\* A transport subscription made for no speaker in particular.
SubscribeUnowned(S, uuid) ==
    IF ~HasFree(S.ws) THEN [S |-> [S EXCEPT !.full = TRUE], w |-> NoSub]
    ELSE LET w == SmallestFree(S.ws) IN
         [S |-> [S EXCEPT !.ws[w] = NewWorker(AVT, None, DeviceOf(uuid))], w |-> w]

\* get_av_transport_subscription for the speaker with this UUID: [S, w], w the
\* new Subscriber (its receiver is pushed by the caller) or NoSub for None.
get_av_transport_subscription(S, uuid) ==
    IF ~find_service(DeviceOf(uuid), AVT) THEN [S |-> S, w |-> NoSub]
    ELSE IF ~HasFree(S.ws) THEN [S |-> [S EXCEPT !.full = TRUE], w |-> NoSub]
    ELSE CHOOSE g \in {IF r.ok THEN [S |-> [S EXCEPT !.ws[r.w] = r.wr], w |-> r.w]
                       ELSE [S |-> S, w |-> NoSub] :
                       r \in {[w |-> SmallestFree(S.ws)] @@ subscribe(AVT, uuid, DeviceOf(uuid))}} : TRUE

\* The new record pushed by update_from_topology, subscribed when possible.
PushSpeaker(S, info) ==
    LET g == get_av_transport_subscription(S, info.uuid) IN
    [g.S EXCEPT !.sd = Append(S.sd, [SpeakerData(info) EXCEPT !.sub = g.w]),
                !.q = IF g.w = NoSub THEN S.q ELSE Append(S.q, g.w)]

RECURSIVE AddInfos(_, _, _)
\* The for loop of update_from_topology over the infos; the result carries
\* ok = FALSE when Speaker::from_speaker_info failed and `?` returned early.
AddInfos(S, infos, on) ==
    IF infos = << >> \/ S.full THEN [S |-> S, ok |-> TRUE]
    ELSE LET info == Head(infos)
             i    == FindUuid(S.sd, info.uuid)
         IN IF i # 0
            THEN AddInfos([S EXCEPT !.sd[i].name = info.name, !.sd[i].loc = info.loc],
                          Tail(infos), on)
            ELSE IF ~from_speaker_info(info.uuid, on)
            THEN [S |-> S, ok |-> FALSE]
            ELSE AddInfos(PushSpeaker(S, info), Tail(infos), on)

RECURSIVE DropSubscribers(_, _)
DropSubscribers(ws, subs) ==
    IF subs = {} THEN ws
    ELSE LET w == CHOOSE x \in subs : TRUE
         IN DropSubscribers(DropSubscriber(ws, w), subs \ {w})

\* An update that leaves out the retain: it removes no record.
KeepRemoved(S, t, on) ==
    LET r == AddInfos([S EXCEPT !.ap = [done |-> TRUE, topology |-> t, ok |-> FALSE, gone |-> {}]],
                      Flatten(t), on)
    IN IF r.ok THEN [S |-> [r.S EXCEPT !.topo = t, !.ap.ok = TRUE], ok |-> TRUE] ELSE r

\* An update that drops every record and builds the registry anew.
RebuildFromTopology(S, t, on) ==
    LET all == {S.sd[i].sub : i \in DOMAIN S.sd}
        S1 == [S EXCEPT !.sd = << >>,
                        !.ws = DropSubscribers(S.ws, all),
                        !.ap = [done |-> TRUE, topology |-> t, ok |-> FALSE, gone |-> all \ {NoSub}]]
        r  == AddInfos(S1, Flatten(t), on)
    IN IF r.ok THEN [S |-> [r.S EXCEPT !.topo = t, !.ap = [r.S.ap EXCEPT !.ok = TRUE]], ok |-> TRUE]
       ELSE r

\* System::update_from_topology: [S, ok]
update_from_topology(S, t, on) ==
    LET infos == Flatten(t)
        keep(sd) == \E k \in DOMAIN infos : eq_ignore_ascii_case(infos[k].uuid, sd.uuid)
        gone == {S.sd[i].sub : i \in {j \in DOMAIN S.sd : ~keep(S.sd[j])}}
        S1 == [S EXCEPT !.sd = SelectSeq(S.sd, keep),
                        !.ws = DropSubscribers(S.ws, gone),
                        !.ap = [done |-> TRUE, topology |-> t, ok |-> FALSE, gone |-> gone \ {NoSub}]]
        r  == AddInfos(S1, infos, on)
    IN IF r.ok THEN [S |-> [r.S EXCEPT !.topo = t, !.ap = [r.S.ap EXCEPT !.ok = TRUE]], ok |-> TRUE]
       ELSE r

\* A replacement that leaves the task of the Subscriber it replaces running.
SubscribeBeside(S, i) ==
    IF S.sd = << >> THEN [S |-> S, ok |-> FALSE]
    ELSE LET dev == DeviceOf(S.sd[i].uuid) IN
         IF ~find_service(dev, ZGT) THEN [S |-> S, ok |-> FALSE]
         ELSE IF ~HasFree(S.ws) THEN [S |-> [S EXCEPT !.full = TRUE], ok |-> FALSE]
         ELSE LET w == SmallestFree(S.ws) IN
              [S |-> [S EXCEPT !.ws[w] = NewWorker(ZGT, None, dev),
                               !.q = Append(S.q, w),
                               !.ts = w],
               ok |-> TRUE]

\* System::update_topology_subscription, i the index fastrand::usize chose: [S, ok]
update_topology_subscription(S, i) ==
    IF S.sd = << >> THEN [S |-> S, ok |-> FALSE]
    ELSE LET dev == DeviceOf(S.sd[i].uuid) IN
         IF ~find_service(dev, ZGT) THEN [S |-> S, ok |-> FALSE]
         ELSE IF ~HasFree(S.ws) THEN [S |-> [S EXCEPT !.full = TRUE], ok |-> FALSE]
         ELSE CHOOSE g \in {IF ~r.ok THEN [S |-> S, ok |-> FALSE]
                            ELSE [S |-> [S EXCEPT !.ws = DropSubscriber([S.ws EXCEPT ![r.w] = r.wr], S.ts),
                                                  !.q = Append(S.q, r.w),
                                                  !.ts = r.w],
                                  ok |-> TRUE] :
                            r \in {[w |-> SmallestFree(S.ws)] @@ subscribe(ZGT, None, dev)}} : TRUE

\* The index fastrand::usize(..len) may return (1-based).
Indices(S) == IF S.sd = << >> THEN {1} ELSE DOMAIN S.sd

\* What find / discover_one and zone_group_state return: a topology a device
\* reports, or an error (timeout, no device, seed not found).
DiscoverErr == [ok |-> FALSE, topology |-> << >>]

Discovered(topos, on) ==
    IF on = {} THEN {DiscoverErr}
    ELSE {[ok |-> TRUE, topology |-> t] : t \in topos} \cup {DiscoverErr}

\* System::discover, found the discovery result, i the random index: [S, ok]
discover(S, found, i, on) ==
    IF ~found.ok THEN [S |-> S, ok |-> FALSE]
    ELSE LET r == update_from_topology(S, found.topology, on) IN
         IF ~r.ok THEN r
         ELSE update_topology_subscription(r.S, IF i \in Indices(r.S) THEN i ELSE 1)

\* Controller::init: discover, then update_topology_subscription once more.
init(S, found, i, j, on) ==
    LET r == discover(S, found, i, on) IN
    IF ~r.ok THEN r
    ELSE update_topology_subscription(r.S, IF j \in Indices(r.S) THEN j ELSE 1)


\* ------------------------------------------- look-ups (controller.rs:389-457)

\* Controller::get_speaker_with_name: position of the first record whose
\* name matches ignoring ASCII case, 0 for None.
get_speaker_with_name(sd, name) ==
    IF \E i \in DOMAIN sd : eq_ignore_ascii_case(sd[i].name, name)
    THEN CHOOSE i \in DOMAIN sd :
            /\ eq_ignore_ascii_case(sd[i].name, name)
            /\ \A j \in 1..(i - 1) : ~eq_ignore_ascii_case(sd[j].name, name)
    ELSE 0

\* Controller::get_speakerdata_by_uuid / get_speaker_by_uuid
get_speakerdata_by_uuid(sd, uuid) == FindUuid(sd, uuid)

\* The find_map over the topology: the key of the first group that lists
\* speaker_uuid, None when no group does.
coordinator_uuid(topo, speaker_uuid) ==
    LET has(g) == \E k \in DOMAIN topo[g][2] :
                     eq_ignore_ascii_case(topo[g][2][k].uuid, speaker_uuid)
    IN IF \E g \in DOMAIN topo : has(g)
       THEN topo[CHOOSE g \in DOMAIN topo : has(g) /\ \A h \in 1..(g - 1) : ~has(h)][1]
       ELSE None

\* Controller::get_coordinator_for_uuid / get_coordinatordata_for_uuid
get_coordinatordata_for_uuid(sd, topo, speaker_uuid) ==
    LET c == coordinator_uuid(topo, speaker_uuid)
    IN IF c = None THEN 0 ELSE get_speakerdata_by_uuid(sd, c)

\* A look-up that stops at the speaker the name finds.
SpeakerItself(sd, topo, name) == get_speaker_with_name(sd, name)

\* Controller::get_coordinator_for_name / get_coordinatordata_for_name:
\* the position of the coordinator's record, 0 for None.
get_coordinatordata_for_name(sd, topo, name) ==
    LET i == get_speaker_with_name(sd, name)
    IN IF i = 0 THEN 0 ELSE get_coordinatordata_for_uuid(sd, topo, sd[i].uuid)

\* ------------------------------------------------ media (mediasource.rs, metadata.rs)

\* Option of a tuple: None is the empty tuple.
NoneT == << >>

\* str::split_once(':') on the items of this model.
split_once(item) ==
    CASE item = "track:4LI1"  -> <<"track", "4LI1">>
      [] item = "album:10"    -> <<"album", "10">>
      [] item = "podcast:7"   -> <<"podcast", "7">>
      [] item = "song:4LI1"   -> <<"song", "4LI1">>
      [] item = "librarytrack:a.1" -> <<"librarytrack", "a.1">>
      [] OTHER -> NoneT

\* An encoding that leaves the ':' as it is.
Unencoded(s) == s

\* urlencoding::encode on the strings of this model: ':' becomes %3A.
encode(s) ==
    CASE s = "spotify:track:4LI1" -> "spotify%3Atrack%3A4LI1"
      [] s = "spotify:album:10"   -> "spotify%3Aalbum%3A10"
      [] s = "spotify:podcast:7"  -> "spotify%3Apodcast%3A7"
      [] s = "song:4LI1"          -> "song%3A4LI1"
      [] s = "album:10"           -> "album%3A10"
      [] s = "podcast:7"          -> "podcast%3A7"
      [] s = "librarytrack:a.1"   -> "librarytrack%3Aa.1"
      [] OTHER -> s

get_metadata(id, parent_id, upnp_class, cdudn) ==
    "<DIDL-Lite xmlns:dc=\"http://purl.org/dc/elements/1.1/\" xmlns:upnp=\"urn:schemas-upnp-org:metadata-1-0/upnp/\" xmlns:r=\"urn:schemas-rinconnetworks-com:metadata-1-0/\" xmlns=\"urn:schemas-upnp-org:metadata-1-0/DIDL-Lite/\">"
    \o "<item id=\"" \o id \o "\" restricted=\"true\" parentID=\"" \o parent_id \o "\">"
    \o "<upnp:class>" \o upnp_class \o "</upnp:class>"
    \o "<desc id=\"cdudn\" nameSpace=\"urn:schemas-rinconnetworks-com:metadata-1-0/\">" \o cdudn \o "</desc>"
    \o "</item>"
    \o "</DIDL-Lite>"

\* spotify_uri_and_metadata: <<uri, metadata>> or None
spotify_uri_and_metadata(item) ==
    LET sp == split_once(item) IN
    IF sp = NoneT THEN NoneT
    ELSE LET kind == sp[1]
             it == encode("spotify:" \o item)
             cdudn == "SA_RINCON3079_X_#Svc3079-0-Token"
         IN CASE kind = "album" ->
                   <<"x-rincon-cpcontainer:0006206c" \o it \o "?sid=12",
                     get_metadata("0004206c" \o it, "", "object.container.album.musicAlbum", cdudn)>>
              [] kind = "track" ->
                   <<"x-sonos-spotify:" \o it \o "?sid=12",
                     get_metadata("00030020" \o it, "", "object.item.audioItem.musicTrack", cdudn)>>
              [] kind = "playlist" ->
                   <<"x-rincon-cpcontainer:0006206c" \o it \o "??sid=12",
                     get_metadata("0004206c" \o it, "", "object.container.playlistContainer", cdudn)>>
              [] OTHER -> NoneT

\* apple_uri_and_metadata: <<uri, metadata>> or None
apple_uri_and_metadata(item) ==
    LET sp == split_once(item) IN
    IF sp = NoneT THEN NoneT
    ELSE LET kind == IF sp[1] = "track" THEN "song" ELSE sp[1]
             it == encode(kind \o ":" \o sp[2])
             cdudn == "SA_RINCON52231_X_#Svc52231-0-Token"
         IN CASE kind \in {"album", "libraryalbum"} ->
                   <<"x-rincon-cpcontainer:0004206c" \o it \o "?sid=204",
                     get_metadata("0004206c" \o it, "00020000album%3A", "object.item.audioItem.musicAlbum", cdudn)>>
              [] kind \in {"song", "librarytrack"} ->
                   <<"x-sonos-http:" \o it \o ".mp4?sid=204",
                     get_metadata("10032020" \o it, "1004206calbum%3A", "object.item.audioItem.musicTrack", cdudn)>>
              [] kind \in {"playlist", "libraryplaylist"} ->
                   <<"x-rincon-cpcontainer:1006206c" \o it \o "?sid=204",
                     get_metadata("1006206c" \o it, "00020000playlist%3A", "object.container.playlistContainer", cdudn)>>
              [] OTHER -> NoneT

\* sonor::utils::escape_str_pcdata: the markup characters become entities;
\* a string without them, such as "", is returned as it is.
escape_str_pcdata(md) ==
    IF md = "" THEN "" ELSE IF md = "resMD" THEN "resMD" ELSE "pcdata:" \o md

Apple(item) == [src |-> "Apple", item |-> item]
Spotify(item) == [src |-> "Spotify", item |-> item]
SonosPlaylist(item) == [src |-> "SonosPlaylist", item |-> item]
SonosFavorite(item) == [src |-> "SonosFavorite", item |-> item]

\* The content directory of a speaker: the titles browse("SQ:") and
\* browse("FV:2") return, an item being <<title, res, resMD>>.
Library == << <<"MORNING MIX", "x-file:morning", "resMD">> >>

FindTitle(item) ==
    IF \E k \in DOMAIN Library : eq_ignore_ascii_case(Library[k][1], item)
    THEN Library[CHOOSE k \in DOMAIN Library :
                    /\ eq_ignore_ascii_case(Library[k][1], item)
                    /\ \A j \in 1..(k - 1) : ~eq_ignore_ascii_case(Library[j][1], item)]
    ELSE NoneT

\* A remote call on the speaker with UUID `on` and its result.
Call(on, op, args, ok) == [on |-> on, op |-> op, args |-> args, ok |-> ok]

\* Calls that are all issued, whatever the earlier ones returned.
IssueAll(on, ops, o, base) ==
    [calls |-> [k \in 1..Len(ops) |-> Call(on, ops[k][1], ops[k][2], base + k # o.fail)],
     ok |-> o.fail \notin (base + 1)..(base + Len(ops))]

\* The calls `ops` (each <<op, args>>) issued in order on `on`, each awaited
\* before the next, up to the first that fails. The oracle o names the
\* failing call: o.fail is its number among the calls of this dispatch
\* (0: none fails), `base` calls having been issued before.
Issue(on, ops, o, base) ==
    [calls |-> [k \in 1..(IF o.fail \in (base + 1)..(base + Len(ops))
                          THEN o.fail - base ELSE Len(ops))
                  |-> Call(on, ops[k][1], ops[k][2], base + k # o.fail)],
     ok |-> o.fail \notin (base + 1)..(base + Len(ops))]

\* The calls made so far followed by those of `rest`, whose result decides.
Sequel(calls, rest) == [calls |-> calls \o rest.calls, ok |-> rest.ok]

\* The find over the browsed items b for the title: the item's res, and
\* its resMD when withMd, else "".
ResolveTitle(b, f, withMd) ==
    [calls |-> b.calls,
     res |-> IF b.ok /\ f # NoneT THEN <<f[2], IF withMd THEN f[3] ELSE "">> ELSE NoneT]

\* MediaSource::get_uri_and_metadata: [calls, res], res = <<uri, metadata>> or NoneT
get_uri_and_metadata(media, on, o) ==
    CASE media.src = "Apple" -> [calls |-> << >>, res |-> apple_uri_and_metadata(media.item)]
      [] media.src = "Spotify" -> [calls |-> << >>, res |-> spotify_uri_and_metadata(media.item)]
      [] media.src = "SonosPlaylist" ->
           ResolveTitle(Issue(on, << <<"browse", <<"SQ:", 0, 0>> >> >>, o, 0),
                        FindTitle(media.item), FALSE)
      [] media.src = "SonosFavorite" ->
           ResolveTitle(Issue(on, << <<"browse", <<"FV:2", 0, 0>> >> >>, o, 0),
                        FindTitle(media.item), TRUE)

\* A play_now that switches to the queue before it has filled it.
PlayBeforeQueued(r, c, o) ==
    IF r.res = NoneT THEN [calls |-> r.calls, ok |-> FALSE]
    ELSE Sequel(r.calls,
                Issue(c.uuid,
                      << <<"clear_queue", << >> >>,
                         <<"set_transport_uri", <<"x-rincon-queue:" \o c.uuid \o "#0", "">> >>,
                         <<"queue_next", <<r.res[1], escape_str_pcdata(r.res[2]), 1>> >>,
                         <<"play", << >> >> >>,
                      o, Len(r.calls)))

\* play_now once the uri and metadata r are resolved.
PlayResolved(r, c, o) ==
    IF r.res = NoneT THEN [calls |-> r.calls, ok |-> FALSE]
    ELSE Sequel(r.calls,
                Issue(c.uuid,
                      << <<"clear_queue", << >> >>,
                         <<"queue_next", <<r.res[1], escape_str_pcdata(r.res[2]), 1>> >>,
                         <<"set_transport_uri", <<"x-rincon-queue:" \o c.uuid \o "#0", "">> >>,
                         <<"play", << >> >> >>,
                      o, Len(r.calls)))

\* MediaSource::play_now on the coordinator record c: [calls, ok]
play_now(media, c, o) == PlayResolved(get_uri_and_metadata(media, c.uuid, o), c, o)


\* ------------------------------------------------ zone actions (zoneaction.rs)

\* str::parse::<u32> on the cached values of this model: [ok, v]
parse_u32(str) ==
    CASE str = "1" -> [ok |-> TRUE, v |-> 1]
      [] str = "3" -> [ok |-> TRUE, v |-> 3]
      [] OTHER -> [ok |-> FALSE, v |-> 0]

\* Position in the AVStatus td of the first key that is CurrentTrack, 0 for none.
FindCurrentTrack(td) ==
    IF \E k \in DOMAIN td : eq_ignore_ascii_case(td[k][1], "CurrentTrack")
    THEN CHOOSE k \in DOMAIN td :
            /\ eq_ignore_ascii_case(td[k][1], "CurrentTrack")
            /\ \A j \in 1..(k - 1) : ~eq_ignore_ascii_case(td[j][1], "CurrentTrack")
    ELSE 0

\* get_current_track_no with k the position of the cached CurrentTrack.
TrackFrom(k, c, o) ==
    IF k # 0
    THEN [calls |-> << >>, ok |-> parse_u32(c.td[k][2]).ok, v |-> parse_u32(c.td[k][2]).v]
    ELSE [calls |-> <<Call(c.uuid, "track", << >>, o.track # -1)>>,
          ok |-> o.track # -1,
          v |-> IF o.track = -1 THEN 0 ELSE o.track]

\* A current track number that is always asked of the speaker.
LiveTrackOnly(c, o) == TrackFrom(0, c, o)

\* SpeakerData::get_current_track_no: the cached value if there is one, else
\* speaker.track() (o.track: -1 an error, 0 for Ok(None), else the track
\* number): [calls, ok, v]
get_current_track_no(c, o) == TrackFrom(FindCurrentTrack(c.td), c, o)

\* i32 addition of cur (0..i32::MAX) and d: [overflow, sum], sum being the
\* wrapped two's complement result.
add_i32(cur, d) ==
    IF d > 0 /\ cur > I32Max - d
    THEN [overflow |-> TRUE, sum |-> I32Min + (cur - (I32Max - d) - 1)]
    ELSE [overflow |-> FALSE, sum |-> cur + d]

\* seek_rel_track from `target = cur_track_no + self` on, a the addition.
\* With overflow checks on (a debug build) an overflowing addition panics,
\* without them it wraps.
SeekTarget(t, a, c, o) ==
    IF a.overflow /\ o.build = "debug"
    THEN [calls |-> t.calls, ok |-> FALSE, panic |-> TRUE]
    ELSE [calls |-> t.calls \o Issue(c.uuid, << <<"seek_track", <<IF a.sum < 1 THEN 1 ELSE a.sum>> >> >>, o, 0).calls,
          ok |-> o.fail # 1,
          panic |-> FALSE]

\* seek_rel_track once get_current_track_no returned t.
SeekFrom(t, d, c, o) ==
    IF ~t.ok \/ t.v > I32Max THEN [calls |-> t.calls, ok |-> FALSE, panic |-> FALSE]
    ELSE SeekTarget(t, add_i32(t.v, d), c, o)

\* ZoneActionSignedNExt::seek_rel_track: [calls, ok, panic]
seek_rel_track(d, c, o) == SeekFrom(get_current_track_no(c, o), d, c, o)

\* queue_as_next once the current track t and the uri and metadata r are known.
QueueResolved(t, r, c, o) ==
    IF r.res = NoneT THEN [calls |-> t.calls \o r.calls, ok |-> FALSE]
    ELSE Sequel(t.calls \o r.calls,
                Issue(c.uuid,
                      << <<"queue_next", <<r.res[1], escape_str_pcdata(r.res[2]),
                                           (IF t.ok THEN t.v ELSE 0) + 1>> >> >>,
                      o, Len(r.calls)))

\* MediaSource::queue_as_next: [calls, ok]
queue_as_next(media, c, o) ==
    QueueResolved(get_current_track_no(c, o), get_uri_and_metadata(media, c.uuid, o), c, o)

\* A ZoneAction: the variant t and its operands, n the integer, s the
\* string (a RepeatMode, a snapshot), f the bool and m the MediaSource one;
\* an operand the variant does not have keeps its default.
NoMedia == [src |-> "", item |-> ""]
Act0(t) == [t |-> t, n |-> 0, s |-> "", f |-> FALSE, m |-> NoMedia]
ActN(t, n) == [Act0(t) EXCEPT !.n = n]
ActS(t, s) == [Act0(t) EXCEPT !.s = s]
ActF(t, f) == [Act0(t) EXCEPT !.f = f]
ActM(t, m) == [Act0(t) EXCEPT !.m = m]

\* The single speaker method of the actions that make one call: <<method, args>>.
Method(action) ==
    CASE action.t = "Play"          -> <<"play", << >> >>
      [] action.t = "Pause"         -> <<"pause", << >> >>
      [] action.t = "PlayPause"     -> <<"play_or_pause", << >> >>
      [] action.t = "NextTrack"     -> <<"next", << >> >>
      [] action.t = "PreviousTrack" -> <<"previous", << >> >>
      [] action.t = "SeekTime"      -> <<"skip_to", <<action.n>> >>
      [] action.t = "SeekTrack"     -> <<"seek_track", <<action.n>> >>
      [] action.t = "SetRepeat"     -> <<"set_repeat_mode", <<action.s>> >>
      [] action.t = "SetShuffle"    -> <<"set_shuffle", <<action.f>> >>
      [] action.t = "SetCrossfade"  -> <<"set_crossfade", <<action.f>> >>
      [] action.t = "SetPlayMode"   -> <<"set_playback_mode", <<action.s, action.f>> >>
      [] action.t = "ClearQueue"    -> <<"clear_queue", << >> >>
      [] action.t = "GetQueue"      -> <<"queue", << >> >>
      [] action.t = "ApplySnapshot" -> <<"apply", <<action.s>> >>
      [] action.t = "TakeSnapshot"  -> <<"snapshot", << >> >>
      [] action.t = "SetRelVolume"  -> <<"set_volume_relative", <<action.n>> >>

\* The Response variant of a successful action.
OkResponse(action) ==
    CASE action.t = "GetQueue" -> "Queue"
      [] action.t = "TakeSnapshot" -> "Snapshot"
      [] OTHER -> "Ok"

\* A method that cannot panic.
NoPanic(r) == [calls |-> r.calls, ok |-> r.ok, panic |-> FALSE]

\* The method of data_action! / controller_action! run on the coordinator
\* record c: [calls, ok, panic]
RunAction(action, c, o) ==
    CASE action.t = "PlayNow" -> NoPanic(play_now(action.m, c, o))
      [] action.t = "QueueAsNext" -> NoPanic(queue_as_next(action.m, c, o))
      [] action.t = "SeekRelTrack" -> seek_rel_track(action.n, c, o)
      [] OTHER -> NoPanic(Issue(c.uuid, <<Method(action)>>, o, 0))

\* A tail that answers with the Ok variant whatever the method returned.
RespondOk(r, action) ==
    [calls |-> r.calls, resp |-> OkResponse(action), sent |-> 1, panic |-> FALSE]

\* The tail of the macros: Ok(..) => tx.send(Response::..), Err => the
\* warning and tx.send(Response::NotOk); nothing is sent by a task that panicked.
Respond(r, action) ==
    IF r.panic THEN [calls |-> r.calls, resp |-> "None", sent |-> 0, panic |-> TRUE]
    ELSE [calls |-> r.calls,
          resp |-> IF r.ok THEN OkResponse(action) ELSE "NotOk",
          sent |-> 1, panic |-> FALSE]

\* A dispatch that falls back on the first record when the look-up finds
\* no coordinator.
RoutedToFirst(ci, sd, action, o) ==
    IF sd = << >> THEN [calls |-> << >>, resp |-> "NotOk", sent |-> 1, panic |-> FALSE]
    ELSE Respond(RunAction(action, sd[IF ci = 0 THEN 1 ELSE ci], o), action)

\* The macros' `if let Some(payload) = controller.get_coordinator..(&name)`,
\* ci the position of the record found (0: None).
Routed(ci, sd, action, o) ==
    IF ci = 0 THEN [calls |-> << >>, resp |-> "NotOk", sent |-> 1, panic |-> FALSE]
    ELSE Respond(RunAction(action, sd[ci], o), action)

\* ZoneAction::handle_action: the remote calls made, the Response sent on the
\* reply-port and the number of sends on it (none when the task panicked).
handle_action(sd, topo, name, action, o) ==
    IF action.t = "Exists"
    THEN [calls |-> << >>,
          resp |-> IF \E i \in DOMAIN sd : sd[i].name = name THEN "Ok" ELSE "NotOk",
          sent |-> 1, panic |-> FALSE]
    ELSE Routed(get_coordinatordata_for_name(sd, topo, name), sd, action, o)

\* The media the clients of this model name.
Media == {Spotify("track:4LI1"), Spotify("podcast:7"), Spotify("nocolon"), Apple("track:4LI1"),
          Apple("album:10"), SonosPlaylist("Morning Mix"), SonosPlaylist("Evening"),
          SonosFavorite("Morning Mix")}

\* The room names the clients of this model address.
ZoneNames == {"Kitchen", "kitchen", "Den", "Attic"}

\* Every ZoneAction variant (zoneaction.rs:13-34) with the operands of this model.
ZoneActions ==
    {Act0(t) : t \in {"Exists", "Play", "Pause", "PlayPause", "NextTrack", "PreviousTrack",
                      "ClearQueue", "GetQueue", "TakeSnapshot"}}
    \cup {ActM("PlayNow", m) : m \in Media}
    \cup {ActM("QueueAsNext", m) : m \in Media}
    \cup {ActN("SeekTime", 30), ActN("SeekTrack", 2), ActS("ApplySnapshot", "snap")}
    \cup {ActN("SeekRelTrack", d) : d \in {-2, 1, I32Max}}
    \cup {ActS("SetRepeat", "All"), ActF("SetShuffle", TRUE), ActF("SetCrossfade", FALSE),
          [ActS("SetPlayMode", "One") EXCEPT !.f = TRUE]}
    \cup {ActN("SetRelVolume", n) : n \in {-5, 5}}

\* The few actions the clients send while the whole system runs.
FewActions ==
    {Act0("Exists"), ActN("SeekRelTrack", I32Max)}

\* The results remote calls can have during one dispatch of `action`.
Oracles(action) ==
    [fail : CASE action.t = "Exists" -> {0}
              [] action.t = "PlayNow" -> 0..5
              [] action.t = "QueueAsNext" -> 0..2
              [] OTHER -> 0..1,
     track : IF action.t \in {"SeekRelTrack", "QueueAsNext"} THEN {-1, 0, 3} ELSE {0},
     build : IF action.t = "SeekRelTrack" THEN {"debug", "release"} ELSE {"release"}]


\* ------------------------------------------- Controller (controller.rs:183-387)

Range(q) == {q[k] : k \in DOMAIN q}

\* An update that stores the data in the first record when no record matches.
StoreInFirst(S, uuid, data) ==
    LET i == FindUuid(S.sd, uuid) IN
    IF S.sd = << >> THEN S ELSE [S EXCEPT !.sd[IF i = 0 THEN 1 ELSE i].td = data]

\* Controller::update_avtransport_data
update_avtransport_data(S, uuid, data) ==
    LET i == FindUuid(S.sd, uuid) IN
    IF i = 0 THEN S ELSE [S EXCEPT !.sd[i].td = data]

\* handle_event, SubscribeError arm for ZoneGroupTopology: i the random index,
\* found the result of the discovery made if no speaker is left.
lost_topology(S, i, found, on) ==
    LET r == update_topology_subscription(S, IF i \in Indices(S) THEN i ELSE 1) IN
    IF r.ok \/ r.S.full THEN r.S
    ELSE LET d == discover(S, found, i, on) IN
         IF d.ok \/ d.S.full THEN d.S
         ELSE [d.S EXCEPT !.ts = NoSub, !.ws = DropSubscriber(d.S.ws, d.S.ts)]

\* handle_event, SubscribeError arm for AVTransport
lost_transport(S, uuid, on) ==
    LET i == FindUuid(S.sd, uuid) IN
    IF i = 0 \/ ~from_speaker_info(S.sd[i].uuid, on) THEN S
    ELSE LET g == get_av_transport_subscription(S, S.sd[i].uuid) IN
         [g.S EXCEPT !.ws = DropSubscriber(g.S.ws, S.sd[i].sub),
                     !.sd[i].sub = g.w,
                     !.q = IF g.w = NoSub THEN S.q ELSE Append(S.q, g.w)]

\* Controller::handle_event
handle_event(S, ev, i, found, on) ==
    CASE ev.type = "TopoUpdate" -> update_from_topology(S, ev.topology, on).S
      [] ev.type = "AVTransUpdate" ->
           IF ev.uuid = None THEN S ELSE update_avtransport_data(S, ev.uuid, ev.data)
      [] ev.type = "SubscribeError" ->
           CASE ev.urn = ZGT -> lost_topology(S, i, found, on)
             [] ev.urn = AVT -> lost_transport(S, ev.uuid, on)
             [] OTHER -> S
      [] OTHER -> S

\* What the step did when it handled the loss of the topology subscription:
\* the device of the worker that reported the loss and the device the
\* replacement subscribes to (None when no replacement was started).
Resubscribed(S, T, w) ==
    [op |-> "resubscribe", w |-> w, ev |-> S.ws[w].val, no |-> S.ws[w].ver,
     after |-> S.ws[w].rv, speakers |-> Len(S.sd), lost |-> S.ws[w].dev,
     now |-> IF T.ts # NoSub /\ T.ts # S.ts THEN T.ws[T.ts].dev ELSE None]

\* What the step did when it handled any other event: the receiver w that
\* yielded it, the event, the version of the channel it is and the version
\* this receiver was handed before.
Yielded(S, w) ==
    [op |-> "event", w |-> w, ev |-> S.ws[w].val, no |-> S.ws[w].ver, after |-> S.ws[w].rv]

\* A poll that drops the stream of every channel whose Sender is gone, the
\* value it still holds with it.
EndedAtOnce(S, es) ==
    LET ended == {w \in es : SenderGone(S.ws[w])} IN
    [S |-> [S EXCEPT !.ws = [w \in WorkerIds |->
                                IF w \in ended THEN [S.ws[w] EXCEPT !.rx = FALSE] ELSE S.ws[w]]],
     es |-> es \ ended]

\* A poll of event_stream.next(): SelectAll drops the streams that ended (the
\* Sender is gone and its last value was seen), and with them the receivers.
Poll(S, es) ==
    LET ended == {w \in es : SenderGone(S.ws[w]) /\ ~S.ws[w].unseen} IN
    [S |-> [S EXCEPT !.ws = [w \in WorkerIds |->
                                IF w \in ended THEN [S.ws[w] EXCEPT !.rx = FALSE] ELSE S.ws[w]]],
     es |-> es \ ended]

\* A stream that hands out the value it holds and leaves it unseen.
TakeAgain(S, w) == [S EXCEPT !.ws[w].rv = S.ws[w].ver]

\* WatchStream: the value is taken and marked seen (borrow_and_update: the
\* receiver's version rv becomes the version of the channel).
Take(S, w) ==
    [S EXCEPT !.ws[w].unseen = FALSE, !.ws[w].val = NoOp, !.ws[w].rv = S.ws[w].ver]

\* WatchStream::new for the receivers rxs: the stream first yields the value
\* the channel holds when it is polled, whether or not the receiver has seen
\* it, and after that every change.
WatchStreams(ws, rxs) ==
    [w \in WorkerIds |-> IF w \in rxs THEN [ws[w] EXCEPT !.unseen = TRUE] ELSE ws[w]]

\* A loop that goes to its select! whether or not the topology subscription
\* is there.
SettleToSelect(S, es, to, lst) ==
    /\ ~S.full
    /\ speakerdata' = S.sd
    /\ topology' = S.topo
    /\ topology_subscription' = S.ts
    /\ queued_event_handles' = IF to = "top" THEN << >> ELSE S.q
    /\ event_stream' = IF to = "top" THEN es \cup Range(S.q) ELSE es
    /\ pc' = IF to = "top" THEN "select" ELSE to
    /\ workers' = Reclaim(IF to = "top" THEN WatchStreams(S.ws, Range(S.q)) ELSE S.ws,
                          Handles(S.sd, S.ts))
    /\ last' = [ap |-> S.ap] @@ lst

\* The step's result becomes the state. to = "top": the loop starts over:
\* the queued receivers are folded into event_stream, and an absent topology
\* subscription leads to Controller::init.
Settle(S, es, to, lst) ==
    /\ ~S.full
    /\ speakerdata' = S.sd
    /\ topology' = S.topo
    /\ topology_subscription' = S.ts
    /\ queued_event_handles' = IF to = "top" THEN << >> ELSE S.q
    /\ event_stream' = IF to = "top" THEN es \cup Range(S.q) ELSE es
    /\ pc' = IF to = "top" THEN (IF S.ts = NoSub THEN "init" ELSE "select") ELSE to
    /\ workers' = Reclaim(IF to = "top" THEN WatchStreams(S.ws, Range(S.q)) ELSE S.ws,
                          Handles(S.sd, S.ts))
    /\ last' = [ap |-> S.ap] @@ lst

\* The Controller is dropped (its task ended, was cancelled or never
\* started): every Subscriber is dropped, which aborts its task, and every
\* receiver with it. to = "dropped": the task ended, "aborted": it was cancelled.
Dropped(S, lst, to) ==
    /\ ~S.full
    /\ speakerdata' = << >>
    /\ topology' = << >>
    /\ topology_subscription' = NoSub
    /\ queued_event_handles' = << >>
    /\ event_stream' = {}
    /\ pc' = to
    /\ workers' = Reclaim([w \in WorkerIds |-> [AbortTask(S.ws[w]) EXCEPT !.rx = FALSE]], {})
    /\ last' = [ap |-> S.ap] @@ lst

\* Manager::try_new_with_room: Controller::new, init().await?, then run() is spawned.
Startup(topos) ==
    /\ pc = "start"
    /\ \E found \in Discovered(topos, online), i, j \in 1..Cardinality(Devices) :
          \E r \in {init(Sys, found, i, j, online)} :
             IF r.ok THEN Settle(r.S, {}, "top", Nothing) ELSE Dropped(r.S, Nothing, "dropped")
    /\ UNCHANGED <<cmdq, tx_alive, nsent, replies, env>>

\* What a dispatch did, as last records it, o being the results the remote
\* calls had.
Dispatched(id, name, action, port, r, o) ==
    [op |-> "dispatch", id |-> id, name |-> name, action |-> action, at |-> pc,
     calls |-> r.calls, resp |-> r.resp, port |-> port, panic |-> r.panic, o |-> o]

\* A channel that hands out the message sent last.
recv_newest(q) == [cmd |-> q[Len(q)], rest |-> SubSeq(q, 1, Len(q) - 1)]

\* mpsc::Receiver::recv and try_recv on a channel holding q: the message
\* sent first, and what stays in the channel.
recv(q) == [cmd |-> Head(q), rest |-> Tail(q)]

\* The state after handle_action returned r for the command id, or after
\* it panicked.
Handled(id, r, lst, to) ==
    /\ replies' = [replies EXCEPT ![id] = @ + r.sent]
    /\ IF r.panic THEN Dropped(Sys, lst, "dropped") ELSE Settle(Sys, event_stream, to, lst)

\* handle_zone_action for the command at the head of the channel. The name
\* and the action are the client's, port tells whether the client still
\* holds the receiving end of the reply-port. With seen the step is recorded
\* in last.
Dispatch(names, actions, to, seen) ==
    /\ cmdq # << >>
    /\ \E m \in {recv(cmdq)} :
         /\ cmdq' = m.rest
         /\ \E name \in names, action \in actions, port \in IF seen THEN BOOLEAN ELSE {TRUE} :
              \E o \in Oracles(action) :
                \E r \in {handle_action(speakerdata, topology, name, action, o)} :
                   Handled(m.cmd, r,
                           IF seen THEN Dispatched(m.cmd, name, action, port, r, o) ELSE Nothing, to)
    /\ UNCHANGED <<tx_alive, nsent, env>>

\* select!: self.rx.recv() gave Some(cmd)
CtrlSelectCmd(names, actions, seen) ==
    /\ pc = "select"
    /\ Dispatch(names, actions, "top", seen)

\* The command the Controller took from the channel last: the ids follow the
\* order of the sends and the channel is first in, first out.
InFlight == nsent - Len(cmdq)

\* select!: self.rx.recv() gave Some(cmd): handle_zone_action is entered and
\* the task awaits the first remote call of handle_action; the other
\* branch of the select! is dropped.
CtrlRecvCmd ==
    /\ pc = "select"
    /\ cmdq # << >>
    /\ \E m \in {recv(cmdq)} :
         /\ cmdq' = m.rest
         /\ last' = [op |-> "recv", id |-> m.cmd, ap |-> NoUpdate]
    /\ pc' = "handling"
    /\ UNCHANGED <<speakerdata, topology, queued_event_handles, topology_subscription,
                   event_stream, tx_alive, nsent, replies, workers, env>>

\* handle_zone_action(..).await completes: the remote calls of handle_action
\* have returned, the Response is sent and the loop starts over.
CtrlReplyCmd(names, actions) ==
    /\ pc = "handling"
    /\ \E name \in names, action \in actions, port \in BOOLEAN :
         \E o \in Oracles(action) :
            \E r \in {handle_action(speakerdata, topology, name, action, o)} :
               Handled(InFlight, r, Dispatched(InFlight, name, action, port, r, o), "top")
    /\ UNCHANGED <<cmdq, tx_alive, nsent, env>>

\* run() returns (the channel is closed and empty): event_stream is dropped.
Exit ==
    /\ Settle([Sys EXCEPT !.ws = [w \in WorkerIds |->
                                    IF w \in event_stream THEN [workers[w] EXCEPT !.rx = FALSE]
                                    ELSE workers[w]]],
              {}, "exited", Nothing)
    /\ UNCHANGED <<cmdq, tx_alive, nsent, replies, env>>

\* select!: self.rx.recv() gave None
CtrlSelectClosed ==
    /\ pc = "select"
    /\ cmdq = << >> /\ ~tx_alive
    /\ Exit

\* An event of the stream w is handled.
HandleFrom(P, w, topos, to) ==
    /\ P.S.ws[w].unseen
    /\ \E i \in IF P.S.sd = << >> THEN 1..Cardinality(Devices) ELSE DOMAIN P.S.sd,
          found \in IF P.S.sd = << >> THEN Discovered(topos, online) ELSE {DiscoverErr} :
         \E T \in {handle_event(Take(P.S, w), P.S.ws[w].val, i, found, online)} :
            Settle(T, P.es, to,
                   IF P.S.ws[w].val.type = "SubscribeError" /\ P.S.ws[w].val.urn = ZGT
                   THEN Resubscribed(P.S, T, w) ELSE Yielded(P.S, w))
    /\ UNCHANGED <<cmdq, tx_alive, nsent, replies, env>>

\* A Controller that handles events while a command is being handled.
EventWhileAwaiting(w, topos) ==
    /\ pc \in {"select", "handling"}
    /\ \E P \in {Poll(Sys, event_stream)} :
          w \in P.es /\ HandleFrom(P, w, topos, IF pc = "handling" THEN "handling" ELSE "top")

\* select!: event_stream.next() gave Some(event), yielded by the stream of
\* the receiver w.
CtrlSelectFrom(w, topos) ==
    /\ pc = "select"
    /\ \E P \in {Poll(Sys, event_stream)} :
          w \in P.es /\ HandleFrom(P, w, topos, "top")

\* select!: event_stream.next() gave Some(event)
CtrlSelectEvent(topos) == \E w \in WorkerIds : CtrlSelectFrom(w, topos)

\* select!: event_stream.next() found streams that ended; with no stream
\* left it gives None and the loop starts over, else it stays pending.
CtrlSelectIdle ==
    /\ pc = "select"
    /\ \E P \in {Poll(Sys, event_stream)} :
       /\ P.es # event_stream \/ event_stream = {}
       /\ \A w \in P.es : ~P.S.ws[w].unseen
       /\ Settle(P.S, P.es, IF P.es = {} THEN "top" ELSE "select", Nothing)
    /\ UNCHANGED <<cmdq, tx_alive, nsent, replies, env>>

\* run(): topology_subscription is None: self.init().await
CtrlInit(topos) ==
    /\ pc = "init"
    /\ \E found \in Discovered(topos, online), i, j \in 1..Cardinality(Devices) :
          \E r \in {init(Sys, found, i, j, online)} :
             Settle(r.S, event_stream, IF r.ok THEN "select" ELSE "drain_cmds", Nothing)
    /\ UNCHANGED <<cmdq, tx_alive, nsent, replies, env>>

\* 'inner: self.rx.try_recv() gave Ok(cmd)
CtrlDrainCmd(names, actions, seen) ==
    /\ pc = "drain_cmds"
    /\ Dispatch(names, actions, "drain_cmds", seen)

\* A drain that takes Disconnected for Empty.
DrainNeverExits ==
    /\ pc = "drain_cmds"
    /\ cmdq = << >>
    /\ Settle(Sys, event_stream, "drain_events", Nothing)
    /\ UNCHANGED <<cmdq, tx_alive, nsent, replies, env>>

\* 'inner: try_recv gave Empty (break 'inner) or Disconnected (break 'outer)
CtrlDrainCmdsDone ==
    /\ pc = "drain_cmds"
    /\ cmdq = << >>
    /\ IF tx_alive
       THEN /\ Settle(Sys, event_stream, "drain_events", Nothing)
            /\ UNCHANGED <<cmdq, tx_alive, nsent, replies, env>>
       ELSE Exit

\* while let Some(Some(event)) = event_stream.next().now_or_never()
CtrlDrainEvent(topos) ==
    /\ pc = "drain_events"
    /\ \E P \in {Poll(Sys, event_stream)} :
          \E w \in P.es : HandleFrom(P, w, topos, "drain_events")

\* A recovery that goes to its sleep without looking at event_stream.
SleepAtOnce ==
    /\ pc = "drain_events"
    /\ Settle(Sys, event_stream, "sleep", Nothing)
    /\ UNCHANGED <<cmdq, tx_alive, nsent, replies, env>>

\* now_or_never gave None or Some(None): the sleep is awaited.
CtrlDrainEventsDone ==
    /\ pc = "drain_events"
    /\ \E P \in {Poll(Sys, event_stream)} :
       /\ \A w \in P.es : ~P.S.ws[w].unseen
       /\ Settle(P.S, P.es, "sleep", Nothing)
    /\ UNCHANGED <<cmdq, tx_alive, nsent, replies, env>>

\* The sleep is over: continue 'outer
CtrlWake ==
    /\ pc = "sleep"
    /\ Settle(Sys, event_stream, "top", Nothing)
    /\ UNCHANGED <<cmdq, tx_alive, nsent, replies, env>>

\* The task that ran run() ends: the Controller is dropped.
CtrlDrop ==
    /\ pc = "exited"
    /\ Dropped(Sys, Nothing, "dropped")
    /\ UNCHANGED <<cmdq, tx_alive, nsent, replies, env>>

\* impl Drop for Manager: controller_handle.abort() cancels the Controller
\* task at the await it is at, then the Manager's CmdSender is dropped.
DropManager ==
    /\ tx_alive
    /\ pc \notin {"start", "exited", "dropped", "aborted"}
    /\ tx_alive' = FALSE
    /\ Dropped(Sys, Nothing, "aborted")
    /\ UNCHANGED <<cmdq, nsent, replies, env>>

\* ------------------------------------------------------------ specification

Init ==
    /\ speakerdata = << >>
    /\ topology = << >>
    /\ queued_event_handles = << >>
    /\ topology_subscription = NoSub
    /\ event_stream = {}
    /\ pc = "start"
    /\ cmdq = << >>
    /\ tx_alive = TRUE
    /\ nsent = 0
    /\ replies = [c \in CmdIds |-> 0]
    /\ workers = [w \in WorkerIds |-> FreeWorker]
    /\ online = Devices
    /\ nevents = 0
    /\ nfaults = 0
    /\ last = Nothing

\* The actions a worker task, the network and the clients take.
Others(topos, avs) ==
    \/ \E w \in WorkerIds :
         \/ WSubscribe(w)
         \/ WEvent(w, topos, avs)
         \/ WStreamError(w)
         \/ WRenewFailed(w)
         \/ WClosed(w)
    \/ \E d \in Devices : GoOffline(d) \/ GoOnline(d)
    \/ SendCmd
    \/ DropSenders
    \/ DropManager

\* The steps of the Controller task.
Controller(topos, names, actions, seen) ==
    \/ Startup(topos)
    \/ CtrlSelectCmd(names, actions, seen)
    \/ CtrlSelectClosed
    \/ CtrlSelectEvent(topos)
    \/ CtrlSelectIdle
    \/ CtrlInit(topos)
    \/ CtrlDrainCmd(names, actions, seen)
    \/ CtrlDrainCmdsDone
    \/ CtrlDrainEvent(topos)
    \/ CtrlDrainEventsDone
    \/ CtrlWake
    \/ CtrlDrop

FewTopologies == {TopoOneGroup, TopoOnlyA, TopoEmpty}

\* The system and its devices while no client sends a command: the worker
\* tasks, the network, the Controller task handling events and recovering,
\* and the drop of the Manager.
Next ==
    \/ \E w \in WorkerIds :
         \/ WSubscribe(w)
         \/ WEvent(w, FewTopologies, OneAV)
         \/ WStreamError(w)
         \/ WRenewFailed(w)
    \/ \E d \in Devices : GoOffline(d) \/ GoOnline(d)
    \/ DropManager
    \/ Startup(FewTopologies)
    \/ CtrlSelectEvent(FewTopologies)
    \/ CtrlSelectIdle
    \/ CtrlInit(FewTopologies)
    \/ CtrlDrainCmdsDone
    \/ CtrlDrainEvent(FewTopologies)
    \/ CtrlDrainEventsDone
    \/ CtrlWake

Spec == Init /\ [][Next]_vars


\* ------------------------------------------------- dispatch on its own

\* The System as Controller::new leaves it.
EmptySys == [sd |-> << >>, topo |-> << >>, q |-> << >>, ts |-> NoSub,
             ws |-> [w \in WorkerIds |-> FreeWorker], ap |-> NoUpdate, full |-> FALSE]

\* The transport data a record can hold: none yet, the LastChange values of
\* an event, among them a CurrentTrack that is not a number.
CachedValues ==
    AVStatusValues \cup {<< >>, << <<"CurrentTrack", "NOT_IMPLEMENTED">> >>}

\* The cached transport data of the speakers, by position in the registry.
Caches == [1..Cardinality(Devices) -> CachedValues]

\* The Controller waiting in select! after Manager::try_new_with_room found
\* the topology t, the AVTransport events that filled the caches tds handled.
Serving(t, i, j, tds) ==
    LET S == init(EmptySys, [ok |-> TRUE, topology |-> t], i, j, Devices).S IN
    /\ speakerdata = [k \in DOMAIN S.sd |-> [S.sd[k] EXCEPT !.td = tds[k]]]
    /\ topology = S.topo
    /\ queued_event_handles = << >>
    /\ topology_subscription = S.ts
    /\ event_stream = Range(S.q)
    /\ workers = [w \in WorkerIds |->
                    IF \E k \in DOMAIN S.sd : S.sd[k].sub = w /\ tds[k] # << >>
                    THEN [S.ws[w] EXCEPT !.st = "running"] ELSE S.ws[w]]

\* Every registry and topology a discovery of the topologies of this model
\* leads to, every cache, before the first command.
InitDispatch ==
    /\ \E t \in Topologies \ {TopoEmpty}, i, j \in 1..Cardinality(Devices), tds \in Caches :
          Serving(t, i, j, tds)
    /\ pc = "select"
    /\ cmdq = << >>
    /\ tx_alive = TRUE
    /\ nsent = 0
    /\ replies = [c \in CmdIds |-> 0]
    /\ online = Devices
    /\ nevents = 0
    /\ nfaults = 0
    /\ last = Nothing

\* Topologies that list a third speaker, whose device does not answer.
TopoCJoinsA  == << <<"RINCON_A", <<Info("RINCON_A", "Kitchen", "L1"), Info("RINCON_C", "Attic", "L3")>> >> >>
TopoAllThree == << <<"RINCON_A", <<Info("RINCON_A", "Kitchen", "L1"), Info("RINCON_B", "Den", "L1"),
                                   Info("RINCON_C", "Attic", "L3")>> >> >>

Unanswered == {TopoCJoinsA, TopoAllThree}

\* The Controller waiting in select! after Manager::try_new_with_room found
\* the topology t and a TopoUpdate(t2) was handled whose update_from_topology
\* returned early, at the speaker that does not answer.
Outdated(t, i, j, t2) ==
    LET S0 == init(EmptySys, [ok |-> TRUE, topology |-> t], i, j, Devices).S
        S  == update_from_topology(S0, t2, Devices).S
    IN
    /\ speakerdata = S.sd
    /\ topology = S.topo
    /\ queued_event_handles = << >>
    /\ topology_subscription = S.ts
    /\ event_stream = Range(S.q)
    /\ workers = Reclaim(WatchStreams(S.ws, Range(S.q)), Handles(S.sd, S.ts))

InitLookup ==
    /\ \E t \in {TopoOnlyA, TopoOneGroup, TopoBLeads}, i, j \in 1..Cardinality(Devices),
          t2 \in Unanswered :
          Outdated(t, i, j, t2)
    /\ pc = "select"
    /\ cmdq = << >>
    /\ tx_alive = TRUE
    /\ nsent = 0
    /\ replies = [c \in CmdIds |-> 0]
    /\ online = Devices
    /\ nevents = 0
    /\ nfaults = 0
    /\ last = Nothing

\* The clients send commands and the Controller dispatches them: every
\* room name and every action, on every registry.
NextDispatch == SendCmd \/ CtrlSelectCmd(ZoneNames, ZoneActions, TRUE)

DispatchSpec == InitDispatch /\ [][NextDispatch]_vars

\* The dispatch of every action and room name on a registry and a topology
\* that an update left apart.
LookupSpec == InitLookup /\ [][NextDispatch]_vars

\* ------------------------------------------------ the facade (lib.rs:38-79)

Ok(v) == [ok |-> TRUE, v |-> v]
Err(e) == [ok |-> FALSE, v |-> e]

\* The Controller task is gone, and the receiver of the command channel
\* with it.
ReceiverGone == pc \in {"dropped", "aborted"}

\* Zone::action: tx.send(..).await.map_err(|_| ControllerOffline)?, then
\* rx.await.map_err(|_| MessageRecvError). gone: the send finds the receiver
\* dropped; reply: the Response sent on the reply-port, None when the port
\* was dropped without one.
Zone_action(gone, reply) ==
    IF gone THEN Err("ControllerOffline")
    ELSE IF reply = None THEN Err("MessageRecvError")
    ELSE Ok(reply)

\* The Response variant the typed helper of an action takes its result from
\* (the action! lines of lib.rs).
Expected(action) ==
    CASE action.t = "GetQueue" -> "Queue"
      [] action.t = "TakeSnapshot" -> "Snapshot"
      [] OTHER -> "Ok"

\* What a Response carries.
Payload(resp) ==
    CASE resp = "Queue" -> "queue"
      [] resp = "Snapshot" -> "snap"
      [] OTHER -> "()"

\* A helper that hands out the payload of whatever Response came.
typed_any(action, res) == IF ~res.ok THEN res ELSE Ok(Payload(res.v))

\* action!: match self.action(..).await? { Response::$resp(v) => Ok(v),
\* _ => Err(ZoneActionError) }
typed(action, res) ==
    IF ~res.ok THEN res
    ELSE IF res.v = Expected(action) THEN Ok(Payload(res.v))
    ELSE Err("ZoneActionError")

\* A get_zone that hands out a Zone whatever the reply was.
get_zone_any(res) == IF ~res.ok THEN res ELSE Ok("zone")

\* Manager::get_zone: match zone.action(Exists).await? { Response::Ok(_) =>
\* Ok(zone), _ => Err(ZoneDoesNotExist) }
get_zone(res) ==
    IF ~res.ok THEN res
    ELSE IF res.v = "Ok" THEN Ok("zone")
    ELSE Err("ZoneDoesNotExist")

\* What the client's call returned, as last records it: Exists is sent by
\* get_zone, every other action by its typed helper.
Returned(id, action, gone, reply) ==
    [op |-> "returned", id |-> id, action |-> action, gone |-> gone, reply |-> reply,
     ret |-> IF action.t = "Exists" THEN get_zone(Zone_action(gone, reply))
             ELSE typed(action, Zone_action(gone, reply)),
     ap |-> NoUpdate]

\* The client that awaits the reply-port of the command just dispatched is
\* woken: by the Response, or by the drop of the port.
ClientReturns ==
    /\ last.op = "dispatch"
    /\ last.port
    /\ last' = Returned(last.id, last.action, FALSE, last.resp)
    /\ UNCHANGED <<sysvars, cmdq, tx_alive, nsent, replies, workers, env>>

\* A client calls a helper after the Controller task is gone: the command
\* does not enter the channel.
ClientSendFails(actions) ==
    /\ tx_alive
    /\ ReceiverGone
    /\ ~(last.op = "returned" /\ last.gone)
    /\ \E action \in actions : last' = Returned(nsent + 1, action, TRUE, None)
    /\ UNCHANGED <<sysvars, cmdq, tx_alive, nsent, replies, workers, env>>

\* The helpers whose results differ: one for each Response variant, and one
\* whose dispatch can end the Controller task.
HelperActions ==
    {Act0("Play"), Act0("GetQueue"), Act0("TakeSnapshot"), ActN("SeekRelTrack", I32Max)}

NextFacade ==
    \/ SendCmd
    \/ CtrlSelectCmd(ZoneNames, HelperActions, TRUE)
    \/ ClientReturns
    \/ ClientSendFails(HelperActions)

FacadeSpec == InitDispatch /\ [][NextFacade]_vars

\* The service identifiers clients hand to MediaSource::Spotify and
\* MediaSource::Apple: every kind the two functions treat differently, a
\* kind they do not list, and an identifier without ':'.
MediaInputs ==
    {Spotify("track:4LI1"), Spotify("album:10"), Spotify("podcast:7"), Spotify("nocolon"),
     Apple("track:4LI1"), Apple("song:4LI1"), Apple("librarytrack:a.1"), Apple("album:10"),
     Apple("podcast:7"), Apple("nocolon")}

\* MediaSource::get_uri_and_metadata for a Spotify or Apple identifier: no
\* speaker is asked.
Resolve(medias) ==
    /\ \E m \in medias :
          last' = [op |-> "resolved", media |-> m,
                   res |-> get_uri_and_metadata(m, None, [fail |-> 0]).res, ap |-> NoUpdate]
    /\ UNCHANGED <<sysvars, cmdq, tx_alive, nsent, replies, workers, env>>

NextResolve == Resolve(MediaInputs)

ResolveSpec == InitDispatch /\ [][NextResolve]_vars

\* A client that creates a Manager and asks it for zones: try_new_with_room
\* on every topology, then get_zone for every room name, while the worker
\* tasks subscribe.
NextManager ==
    \/ Startup(Topologies)
    \/ \E w \in WorkerIds : WSubscribe(w)
    \/ SendCmd
    \/ CtrlSelectCmd(ZoneNames, {Act0("Exists")}, TRUE)
    \/ ClientReturns

ManagerSpec == Init /\ [][NextManager]_vars

\* ------------------------------------------- the system after its start

\* The Controller waiting in select! after Manager::try_new_with_room found
\* the topology t: the AVTransport workers of the records in `first` have
\* subscribed and published the event d a device sends on subscription,
\* which the Controller has not seen yet.
Subscribed(t, i, j, first, d) ==
    LET S == init(EmptySys, [ok |-> TRUE, topology |-> t], i, j, Devices).S IN
    /\ speakerdata = S.sd
    /\ topology = S.topo
    /\ queued_event_handles = << >>
    /\ topology_subscription = S.ts
    /\ event_stream = Range(S.q)
    /\ workers = [w \in WorkerIds |->
                    IF \E k \in first : S.sd[k].sub = w
                    THEN tx_send([S.ws[w] EXCEPT !.st = "running"],
                                 AVTransUpdate(S.ws[w].uuid, d))
                    ELSE S.ws[w]]

InitEvents ==
    /\ \E i, j \in 1..Cardinality(Devices), first \in SUBSET (1..Cardinality(Devices)),
          d \in OneAV :
          Subscribed(TopoOneGroup, i, j, first, d)
    /\ pc = "select"
    /\ cmdq = << >>
    /\ tx_alive = TRUE
    /\ nsent = 0
    /\ replies = [c \in CmdIds |-> 0]
    /\ online = Devices
    /\ nevents = 0
    /\ nfaults = 0
    /\ last = Nothing

\* The topology the speakers report from there on: the speaker B is gone.
LaterTopologies == {TopoOnlyA}

\* The worker tasks, the network and the Controller from there on, while no
\* client sends a command; with a speaker left in every topology the
\* Controller stays in select!.
NextEvents ==
    \/ \E w \in WorkerIds :
         \/ WSubscribe(w)
         \/ WEvent(w, LaterTopologies, OneAV)
         \/ WStreamError(w)
         \/ WRenewFailed(w)
    \/ \E d \in Devices : GoOffline(d) \/ GoOnline(d)
    \/ CtrlSelectEvent(LaterTopologies)
    \/ CtrlSelectIdle

EventSpec == InitEvents /\ [][NextEvents]_vars

\* The topologies the speakers report once they are regrouped and renamed:
\* B renamed and moved, B gone, A in another letter case behind B, a third
\* speaker that does not answer.
Regrouped == {TopoSameNames, TopoOnlyA, TopoBLeads, TopoAllThree}

\* A household whose speakers are regrouped and renamed while the Controller
\* serves: after the start the Controller handles the first events of the
\* speakers, a worker publishes a topology and the Controller handles it.
NextUpdate ==
    \/ \E w \in WorkerIds :
         \/ WSubscribe(w)
         \/ WEvent(w, Regrouped, OneAV)
    \/ \E d \in Devices : GoOffline(d) \/ GoOnline(d)
    \/ CtrlSelectEvent(Regrouped)
    \/ CtrlSelectIdle

UpdateSpec == InitEvents /\ [][NextUpdate]_vars

\* A zone group state that lists the speakers twice, once in another letter
\* case.
TopoTwice == << <<"RINCON_A", <<Info("RINCON_A", "Kitchen", "L1"), Info("rincon_a", "Kitchen", "L1"),
                                Info("RINCON_B", "Den", "L1"), Info("RINCON_B", "Den", "L1")>> >> >>

Listed == {TopoTwice, TopoBLeads, TopoOnlyA}

\* The registry from its first discovery on, with devices that report
\* their speakers twice and in either letter case.
NextRegistry ==
    \/ \E w \in WorkerIds :
         \/ WSubscribe(w)
         \/ WEvent(w, Listed, OneAV)
    \/ \E d \in Devices : GoOffline(d) \/ GoOnline(d)
    \/ Startup(Listed)
    \/ CtrlSelectEvent(Listed)
    \/ CtrlSelectIdle

RegistrySpec == Init /\ [][NextRegistry]_vars

\* ------------------------------------------------------------- scheduling

\* The tokio runtime polls every task that can run: the Controller task takes
\* its next step, a worker task finishes the subscribe it awaits, notices the
\* renewal that fails at the next tick of its interval, notices that its
\* channel closed. select! picks at random among the branches that are
\* ready, so a branch that is ready again and again is taken.
OneRoom == {TopoOnlyA, TopoEmpty}


\* The whole system in a household of one room.
NextOneRoom == Others(OneRoom, OneAV) \/ Controller(OneRoom, {"Kitchen"}, FewActions, FALSE)

Fairness ==
    /\ WF_vars(Controller(OneRoom, {"Kitchen"}, FewActions, FALSE))
    /\ SF_vars(CtrlSelectCmd({"Kitchen"}, FewActions, FALSE))
    /\ SF_vars(CtrlSelectClosed)
    /\ SF_vars(CtrlSelectEvent(OneRoom))
    /\ \A w \in WorkerIds : WF_vars(WSubscribe(w) \/ WRenewFailed(w) \/ WClosed(w))

FairSpec == Init /\ [][NextOneRoom]_vars /\ Fairness


\* The streams of event_stream in a household of one room that stays
\* registered: the worker tasks, the speaker leaving and joining the
\* network, and the Controller in select!.
OneSpeaker == {TopoOnlyA}

NextStreams ==
    \/ \E w \in WorkerIds :
         \/ WSubscribe(w)
         \/ WEvent(w, OneSpeaker, OneAV)
         \/ WStreamError(w)
         \/ WRenewFailed(w)
    \/ GoOffline("rincon_a")
    \/ GoOnline("rincon_a")
    \/ Startup(OneSpeaker)
    \/ CtrlSelectEvent(OneSpeaker)
    \/ CtrlSelectIdle

\* SelectAll polls every stream that is ready: a stream that stays ready is
\* polled, and select! takes the event while no command is waiting.
FairStreams ==
    /\ WF_vars(Startup(OneSpeaker))
    /\ \A w \in WorkerIds :
          /\ WF_vars(CtrlSelectFrom(w, OneSpeaker))
          /\ WF_vars(WSubscribe(w) \/ WRenewFailed(w))

StreamSpec == Init /\ [][NextStreams]_vars /\ FairStreams


\* The worker tasks of a household of one room through every branch of
\* their select!, the timer of the renewal included, with the speaker
\* leaving and joining the network and the Controller in select!.
NextRenewal ==
    \/ \E w \in WorkerIds :
         \/ WSubscribe(w)
         \/ WEvent(w, OneSpeaker, OneAV)
         \/ WStreamError(w)
         \/ WRenewFailed(w)
         \/ WRenewed(w)
    \/ GoOffline("rincon_a")
    \/ GoOnline("rincon_a")
    \/ Startup(OneSpeaker)
    \/ CtrlSelectEvent(OneSpeaker)
    \/ CtrlSelectIdle

RenewalSpec == Init /\ [][NextRenewal]_vars

\* The actions whose remote calls the Controller awaits in this model.
AwaitedActions == {Act0("Play"), ActM("PlayNow", Spotify("track:4LI1"))}

\* The Controller awaiting the remote calls of a command while the worker
\* tasks run on, the speakers leave and join the network and the clients
\* send the next command.
NextAwait ==
    \/ \E w \in WorkerIds :
         \/ WSubscribe(w)
         \/ WEvent(w, OneRoom, OneAV)
         \/ WStreamError(w)
         \/ WRenewFailed(w)
    \/ \E d \in Devices : GoOffline(d) \/ GoOnline(d)
    \/ Send(MaxCmds + 1)
    \/ Startup(OneRoom)
    \/ CtrlRecvCmd
    \/ CtrlReplyCmd({"Kitchen"}, AwaitedActions)
    \/ CtrlSelectEvent(OneRoom)
    \/ CtrlSelectIdle

AwaitSpec == Init /\ [][NextAwait]_vars

\* Clients that send one command after another to a household of one room,
\* with the Controller in its normal mode and in recovery.
NextQueue ==
    \/ \E w \in WorkerIds :
         \/ WSubscribe(w)
         \/ WEvent(w, OneRoom, OneAV)
         \/ WStreamError(w)
         \/ WRenewFailed(w)
         \/ WClosed(w)
    \/ \E d \in Devices : GoOffline(d) \/ GoOnline(d)
    \/ Send(MaxCmds + 1)
    \/ DropSenders
    \/ Controller(OneRoom, {"Kitchen"}, {Act0("Exists")}, TRUE)

QueueSpec == Init /\ [][NextQueue]_vars

\* ------------------------------------------------------------------ claims

\* on is the UUID of the coordinator of the group that lists the speaker s.
OnCoordinatorOf(s, on) ==
    \E g \in DOMAIN topology :
       /\ \E k \in DOMAIN topology[g][2] : eq_ignore_ascii_case(topology[g][2][k].uuid, s.uuid)
       /\ eq_ignore_ascii_case(on, topology[g][1])

\* The step dispatched an action other than Exists.
Routes == last'.op = "dispatch" /\ last'.action.t # "Exists"

\* C1, as stated: for every speaker s of the Registry, an action other than
\* Exists addressed to the room name of s issues every remote call on the
\* coordinator of the group of s.
C1_EverySpeakerOfTheName ==
    [][Routes =>
         \A i \in DOMAIN speakerdata :
            speakerdata[i].name = last'.name =>
               \A k \in DOMAIN last'.calls : OnCoordinatorOf(speakerdata[i], last'.calls[k].on)]_vars

\* C1: an action other than Exists addressed to a room name issues every
\* remote call on the coordinator of the group of the first Registry record
\* whose name matches the room name ignoring ASCII case; no call is issued on
\* a follower or on a speaker of another group than that record's.
C1_CoordinatorOfFirstMatch ==
    [][Routes =>
         \A i \in DOMAIN speakerdata :
            (/\ eq_ignore_ascii_case(speakerdata[i].name, last'.name)
             /\ \A j \in 1..(i - 1) : ~eq_ignore_ascii_case(speakerdata[j].name, last'.name))
            => \A k \in DOMAIN last'.calls : OnCoordinatorOf(speakerdata[i], last'.calls[k].on)]_vars

\* An action addressed to the follower Den of the group A leads was issued on A.
C1_FollowerRouted ==
    /\ last.op = "dispatch"
    /\ last.action.t = "SetRelVolume"
    /\ last.name = "Den"
    /\ topology = TopoOneGroup
    /\ last.calls # << >>
    /\ last.calls[1].on = "RINCON_A"

NotBrowse(call) == call.op # "browse"

\* The DIDL-Lite document of the Spotify track 4LI1 (metadata.rs:108).
SpotifyTrackMetadata ==
    "<DIDL-Lite xmlns:dc=\"http://purl.org/dc/elements/1.1/\" xmlns:upnp=\"urn:schemas-upnp-org:metadata-1-0/upnp/\" xmlns:r=\"urn:schemas-rinconnetworks-com:metadata-1-0/\" xmlns=\"urn:schemas-upnp-org:metadata-1-0/DIDL-Lite/\"><item id=\"00030020spotify%3Atrack%3A4LI1\" restricted=\"true\" parentID=\"\"><upnp:class>object.item.audioItem.musicTrack</upnp:class><desc id=\"cdudn\" nameSpace=\"urn:schemas-rinconnetworks-com:metadata-1-0/\">SA_RINCON3079_X_#Svc3079-0-Token</desc></item></DIDL-Lite>"

\* The steps of a PlayNow after the resolution of the media.
PlaySteps == SelectSeq(last.calls, NotBrowse)

\* C10: a PlayNow answered Ok issued, after resolving the media, exactly
\* four calls, all on one speaker, the coordinator of the room, each
\* returned before the next: clear-queue, queue-next at position 1 with the
\* resolved uri and the escaped metadata, set-transport-uri to
\* x-rincon-queue:{coordinator-uuid}#0 with empty metadata, play.
C10_PlayNowSequence ==
    (last.op = "dispatch" /\ last.action.t = "PlayNow" /\ last.resp = "Ok") =>
        /\ Len(PlaySteps) = 4
        /\ \A k \in 1..4 : PlaySteps[k].ok /\ PlaySteps[k].on = PlaySteps[1].on
        /\ \E i \in DOMAIN speakerdata :
              /\ eq_ignore_ascii_case(speakerdata[i].name, last.name)
              /\ OnCoordinatorOf(speakerdata[i], PlaySteps[1].on)
        /\ PlaySteps[1].op = "clear_queue"
        /\ PlaySteps[2].op = "queue_next"
        /\ PlaySteps[2].args[3] = 1
        /\ last.action.m = Spotify("track:4LI1") =>
              /\ PlaySteps[2].args[1] = "x-sonos-spotify:spotify%3Atrack%3A4LI1?sid=12"
              /\ PlaySteps[2].args[2] = escape_str_pcdata(SpotifyTrackMetadata)
        /\ last.action.m = SonosFavorite("Morning Mix") =>
              /\ PlaySteps[2].args[1] = "x-file:morning"
              /\ PlaySteps[2].args[2] = escape_str_pcdata("resMD")
        /\ PlaySteps[3].op = "set_transport_uri"
        /\ PlaySteps[3].args = <<"x-rincon-queue:" \o PlaySteps[1].on \o "#0", "">>
        /\ PlaySteps[4].op = "play"

\* A PlayNow of the Spotify track was answered Ok after its four calls.
C10_PlayedSpotifyTrack ==
    /\ last.op = "dispatch"
    /\ last.action = ActM("PlayNow", Spotify("track:4LI1"))
    /\ last.resp = "Ok"
    /\ Len(last.calls) = 4
    /\ last.calls[4].op = "play"


\* The Controller is gone: its task ended or was cancelled.
Ended == {"dropped", "aborted"}

\* The UUIDs of the Registry records and of the members of a topology,
\* compared ignoring ASCII case.
RegistryUuids == {Lower(speakerdata[i].uuid) : i \in DOMAIN speakerdata}

Members(t) == {Lower(Flatten(t)[k].uuid) : k \in DOMAIN Flatten(t)}

\* C2, as stated: after a topology update was applied, the UUIDs of the
\* Registry are the member UUIDs of the topology received.
C2_RegistryIsTopology ==
    (last.ap.done /\ pc \notin Ended) => RegistryUuids = Members(last.ap.topology)

\* C2: after a topology update was applied, every Registry record is a
\* member of the topology received, and when the update returned Ok every
\* member has a record; an update that failed to build a descriptor leaves
\* members without a record.
C2_RegistryWithinTopology ==
    (last.ap.done /\ pc \notin Ended) =>
        /\ RegistryUuids \subseteq Members(last.ap.topology)
        /\ last.ap.ok => RegistryUuids = Members(last.ap.topology)

\* An update to the group of A and B, handled with A already registered,
\* returned Ok and left both registered.
C2_UpdateApplied ==
    /\ last.ap.done /\ last.ap.ok
    /\ last.ap.topology = TopoOneGroup
    /\ pc = "select"
    /\ nevents = 1
    /\ RegistryUuids = {"rincon_a", "rincon_b"}

\* C3, as stated: when an update removes a speaker, then after the update
\* the Registry holds no record outside the topology, the task of the
\* removed record's AVTransport Subscriber is cancelled, and a task that held
\* a subscription on the device has attempted to unsubscribe (a cancelled
\* task takes no further step, so what it has not attempted by then it never
\* attempts).
C3_RemovedUnsubscribed ==
    [][last'.ap.done =>
         /\ RegistryUuids' \subseteq Members(last'.ap.topology)
         /\ \A w \in last'.ap.gone :
               /\ workers'[w].st \notin Alive
               /\ workers[w].st = "running" => workers'[w].unsub]_vars

\* C4: a worker that ended on a failed subscribe sent SubscribeError exactly
\* once, a worker in any other state never sent it, and a worker that has
\* ended publishes nothing more (its channel keeps its value until the
\* Controller takes it).
C4_OneLossPerFailure ==
    /\ [](\A w \in WorkerIds : workers[w].lost = IF workers[w].st = "failed" THEN 1 ELSE 0)
    /\ [][\A w \in WorkerIds :
             (workers[w].st \in Terminated /\ workers'[w].st = workers[w].st)
             => /\ workers'[w].lost = workers[w].lost
                /\ workers'[w].val \in {workers[w].val, NoOp}]_vars

\* A worker failed and its SubscribeError waits in the channel; another
\* worker was cancelled by the drop of its Subscriber.
C4_FailedAndCancelled ==
    /\ \E w \in WorkerIds :
          /\ workers[w].st = "failed"
          /\ workers[w].unseen
          /\ workers[w].val.type = "SubscribeError"
    /\ \E w \in WorkerIds : workers[w].st = "aborted"

\* C6, as stated: with more than one speaker registered, the replacement of
\* a lost topology subscription is started on another speaker than the one
\* whose subscription was lost.
C6_AnotherSpeaker ==
    (last.op = "resubscribe" /\ last.speakers > 1 /\ last.now # None) => last.now # last.lost


\* Every speaker of the Registry is unreachable.
AllUnreachable == \A i \in DOMAIN speakerdata : DeviceOf(speakerdata[i].uuid) \notin online

\* C5, as stated: when the topology worker has failed and every speaker of
\* the Registry stays unreachable, so that no replacement subscription can
\* be established, the Controller eventually clears topology_subscription
\* and enters recovery, or the speakers become reachable again.
C5_EntersRecovery ==
    (/\ pc = "select"
     /\ topology_subscription # NoSub
     /\ workers[topology_subscription].st = "failed"
     /\ speakerdata # << >>
     /\ AllUnreachable)
    ~> (topology_subscription = NoSub \/ ~AllUnreachable \/ pc \in {"exited"} \cup Ended)

\* The positions of run() in its recovery branch.
Recovery == {"init", "drain_cmds", "drain_events", "sleep"}

\* C7, as stated: a command that is in the channel while the Controller is
\* in recovery is eventually answered, unless the Manager is dropped first,
\* and no command is ever answered with more than one reply.
C7_AnsweredInRecovery ==
    \A id \in 1..MaxCmds :
       /\ (pc \in Recovery /\ id \in Range(cmdq)) ~> (replies[id] = 1 \/ pc = "aborted")
       /\ [](replies[id] <= 1)

\* C8, as stated: the dispatch of a command sent exactly one Response on its
\* reply-port, whether or not the caller still holds the port, NotOk when a
\* remote call of the dispatch failed, and left the Controller running.
C8_OneResponse ==
    last.op = "dispatch" =>
        /\ replies[last.id] = 1
        /\ (\E k \in DOMAIN last.calls : ~last.calls[k].ok) => last.resp = "NotOk"
        /\ pc # "dropped"

\* C9: once every sender is dropped, the Controller task eventually ends,
\* from select! as well as from the recovery branch, the Controller is
\* dropped, and from then on no worker task is left subscribing or running.
C9_ExitsAndCancels ==
    /\ (~tx_alive) ~> (pc \in Ended)
    /\ [](pc \in Ended => \A w \in WorkerIds : workers[w].st \notin Alive)

\* run() returned from its recovery branch, the senders dropped, after the
\* command still in the channel was answered.
C9_ExitedInRecovery ==
    /\ pc = "exited"
    /\ ~tx_alive
    /\ topology_subscription = NoSub
    /\ nsent = 1
    /\ replies[1] = 1

\* The record the dispatch l runs its method on: the coordinator of the
\* room it names (0: the room has none).
Coordinator(l) == get_coordinatordata_for_name(speakerdata, topology, l.name)

\* l is the dispatch of a SeekRelTrack that found a coordinator.
SeekRel(l) == l.op = "dispatch" /\ l.action.t = "SeekRelTrack" /\ Coordinator(l) # 0

\* The current track number the dispatch l obtained, [calls, ok, v].
Cur(l) == get_current_track_no(speakerdata[Coordinator(l)], l.o)

\* The dispatch l selected on the coordinator the track that is d after cur,
\* track 1 when that is below 1 (the track n with n - d = cur: the sum
\* itself can exceed the integers of the model checker).
SelectedAfter(l, cur, d) ==
    \E k \in DOMAIN l.calls :
       /\ l.calls[k].op = "seek_track"
       /\ l.calls[k].on = speakerdata[Coordinator(l)].uuid
       /\ IF cur < 1 - d THEN l.calls[k].args = <<1>>
          ELSE l.calls[k].args[1] - d = cur

\* C11, as stated: for every delta d and every current track number cur the
\* dispatch obtained (the cached CurrentTrack, else the live query),
\* SeekRelTrack(d) selects track max(1, cur + d) on the coordinator; no
\* track below 1 is selected and the sum does not wrap.
C11_SeeksMaxOneCurPlusD ==
    [][(SeekRel(last') /\ Cur(last').ok) =>
          /\ SelectedAfter(last', Cur(last').v, last'.action.n)
          /\ \A k \in DOMAIN last'.calls :
                last'.calls[k].op = "seek_track" => last'.calls[k].args[1] >= 1]_vars

\* The cached transport data td holds no CurrentTrack that is a number.
NoCachedTrack(td) ==
    FindCurrentTrack(td) = 0 \/ ~parse_u32(td[FindCurrentTrack(td)][2]).ok

\* C12, as stated: a SeekRelTrack(d) that can obtain no current track number
\* (the cached CurrentTrack is missing or is not a number, and the live query
\* fails) takes 0 for it and selects track max(1, d) on the coordinator.
C12_DefaultsToZero ==
    [][(/\ SeekRel(last')
        /\ NoCachedTrack(speakerdata[Coordinator(last')].td)
        /\ last'.o.track = -1)
       => SelectedAfter(last', 0, last'.action.n)]_vars

\* The step handled an AVTransUpdate whose UUID matches no Registry record.
UnknownSpeaker ==
    /\ last'.op = "event"
    /\ last'.ev.type = "AVTransUpdate"
    /\ last'.ev.uuid # None
    /\ FindUuid(speakerdata, last'.ev.uuid) = 0

\* C13: handling an AVTransUpdate whose UUID matches no Registry record
\* changes nothing: the Registry records with their caches and handles, the
\* topology and the topology subscription stay as they are, and no
\* Subscriber the System holds is cancelled.
C13_UnknownUuidChangesNothing ==
    [][UnknownSpeaker =>
          /\ speakerdata' = speakerdata
          /\ topology' = topology
          /\ topology_subscription' = topology_subscription
          /\ \A w \in Handles(speakerdata, topology_subscription) :
                workers'[w].st = workers[w].st]_vars

\* The event of a speaker that a topology update had just removed was
\* handled while the Registry held another speaker.
C13_LateEventHandled ==
    /\ last.op = "event"
    /\ last.ev.type = "AVTransUpdate"
    /\ last.ev.uuid = "RINCON_B"
    /\ speakerdata # << >>
    /\ FindUuid(speakerdata, "RINCON_B") = 0

\* C14, as stated: a worker task whose every receiver is dropped eventually
\* ends after the unsubscribe of the tx.closed() branch, also when the
\* Subscriber that owns the task is dropped right after the receivers.
C14_ClosedUnsubscribes ==
    \A w \in WorkerIds :
       (workers[w].st \in Alive /\ ~workers[w].rx)
           ~> (workers[w].st = "done" /\ workers[w].unsub)

\* C15, as stated: the NoOp a worker's channel is created with is never
\* delivered to handle_event: every event the Controller handles is a
\* TopoUpdate, an AVTransUpdate or a SubscribeError a worker published.
C15_NoOpNeverHandled ==
    last.op \in {"event", "resubscribe"} =>
        last.ev.type \in {"TopoUpdate", "AVTransUpdate", "SubscribeError"}

\* The step handled the event the receiver w yielded.
HandledFrom(w) == last'.op \in {"event", "resubscribe"} /\ last'.w = w

C17_EmissionOrder ==
    [][\A w \in WorkerIds :
          (HandledFrom(w) /\ last'.ev.type # "NoOp") => last'.no > workers[w].rv]_vars

\* The second event a worker sent, its SubscribeError, was handled after
\* its first was.
C17_SecondAfterFirst ==
    /\ last.op \in {"event", "resubscribe"}
    /\ last.ev.type = "SubscribeError"
    /\ last.no = 2
    /\ last.after = 1

\* The step took the command id from the channel.
TakenFromChannel(id) == id \in Range(cmdq) /\ id \notin Range(cmdq')

\* C18: a command leaves the channel only by being handled, in select! or
\* in the recovery drain, and when it is handled every command sent before
\* it has been handled already.
C18_HandledInSendOrder ==
    [][\A id \in CmdIds :
          TakenFromChannel(id) =>
             /\ last'.op = "dispatch" /\ last'.id = id
             /\ last'.at \in {"select", "drain_cmds"}
             /\ \A j \in 1..(id - 1) : j \notin Range(cmdq) /\ j \notin Range(cmdq')]_vars

\* C18, witness: two commands were waiting in the channel, the first was
\* answered, and the second is handled by the recovery drain.
C18_SecondInRecovery ==
    /\ last.op = "dispatch"
    /\ last.id = 2
    /\ last.at = "drain_cmds"
    /\ replies[1] = 1

\* C19: what a typed helper returns: ControllerOffline when the receiver of
\* the command channel is gone, MessageRecvError when the reply-port was
\* dropped without a reply, ZoneActionError when the reply is not of the
\* variant the helper expects, the payload of the reply otherwise.
C19_FacadeErrors ==
    (last.op = "returned" /\ last.action.t # "Exists") =>
        last.ret =
            IF last.gone THEN Err("ControllerOffline")
            ELSE IF last.reply = None THEN Err("MessageRecvError")
            ELSE IF \/ last.action.t = "GetQueue" /\ last.reply # "Queue"
                    \/ last.action.t = "TakeSnapshot" /\ last.reply # "Snapshot"
                    \/ last.action.t \notin {"GetQueue", "TakeSnapshot"} /\ last.reply # "Ok"
                 THEN Err("ZoneActionError")
            ELSE Ok(Payload(last.reply))

\* C19, witness: play was answered NotOk and the helper returned
\* ZoneActionError.
C19_PlayNotOk ==
    /\ last.op = "returned"
    /\ last.action.t = "Play"
    /\ last.reply = "NotOk"
    /\ last.ret = Err("ZoneActionError")

\* The actions that are one transport call without operands.
DirectTransport == {"Play", "Pause", "PlayPause", "NextTrack", "PreviousTrack", "ClearQueue"}

\* The speaker s is listed in a group another speaker leads.
IsFollower(s) ==
    \E g \in DOMAIN topology :
       /\ \E k \in DOMAIN topology[g][2] : eq_ignore_ascii_case(topology[g][2][k].uuid, s.uuid)
       /\ ~eq_ignore_ascii_case(topology[g][1], s.uuid)

C21_ExistsAgreesWithLookup ==
    (last.op = "dispatch" /\ last.action.t = "Exists") =>
        (last.resp = "Ok" <=> get_speaker_with_name(speakerdata, last.name) # 0)

\* C22: Manager::try_new_with_room either fails, and then the Controller is
\* dropped and no task of it is left, or the Controller starts its loop
\* with speakers in the registry and a topology subscription whose task is
\* alive; get_zone returns the Zone exactly when Exists was answered Ok, and
\* ZoneDoesNotExist when it was answered otherwise.
C22_ManagerOrError ==
    /\ [][pc = "start" =>
            \/ /\ pc' = "dropped"
               /\ \A w \in WorkerIds : workers'[w].st \notin Alive
            \/ /\ pc' = "select"
               /\ speakerdata' # << >>
               /\ topology_subscription' # NoSub
               /\ workers'[topology_subscription'].st \in Alive
               /\ topology_subscription' \in event_stream']_vars
    /\ []((last.op = "returned" /\ last.action.t = "Exists") =>
            /\ last.ret = Ok("zone") <=> (~last.gone /\ last.reply = "Ok")
            /\ (~last.gone /\ last.reply \notin {None, "Ok"}) => last.ret = Err("ZoneDoesNotExist"))

\* C22, witness: the Manager was created and get_zone for a room no speaker
\* has returned ZoneDoesNotExist.
C22_NoSuchZone ==
    /\ last.op = "returned"
    /\ last.action.t = "Exists"
    /\ pc = "select"
    /\ speakerdata # << >>
    /\ last.reply = "NotOk"
    /\ last.ret = Err("ZoneDoesNotExist")

\* The DIDL-Lite document of the test targets of metadata.rs:108 and 119
\* for an item: its id, its parent, and the token of the service.
TargetTrackMetadata(id, parent, token) ==
    "<DIDL-Lite xmlns:dc=\"http://purl.org/dc/elements/1.1/\" xmlns:upnp=\"urn:schemas-upnp-org:metadata-1-0/upnp/\" xmlns:r=\"urn:schemas-rinconnetworks-com:metadata-1-0/\" xmlns=\"urn:schemas-upnp-org:metadata-1-0/DIDL-Lite/\"><item id=\""
    \o id \o "\" restricted=\"true\" parentID=\"" \o parent
    \o "\"><upnp:class>object.item.audioItem.musicTrack</upnp:class><desc id=\"cdudn\" nameSpace=\"urn:schemas-rinconnetworks-com:metadata-1-0/\">"
    \o token \o "</desc></item></DIDL-Lite>"

\* C23: a Spotify track resolves to x-sonos-spotify:{enc}?sid=12 with item
\* id 00030020{enc} and no parent, an Apple song or librarytrack to
\* x-sonos-http:{enc}.mp4?sid=204 with item id 10032020{enc} and parent
\* 1004206calbum%3A, an Apple album to x-rincon-cpcontainer:0004206c{enc}?sid=204,
\* {enc} being the identifier with its ':' encoded as %3A; an identifier
\* without ':' or of a kind not listed resolves to nothing.
C23_ResolutionTable ==
    last.op = "resolved" =>
        LET m == last.media
            apple(enc) == <<"x-sonos-http:" \o enc \o ".mp4?sid=204",
                            TargetTrackMetadata("10032020" \o enc, "1004206calbum%3A",
                                                "SA_RINCON52231_X_#Svc52231-0-Token")>>
        IN /\ m = Spotify("track:4LI1") =>
                 last.res = <<"x-sonos-spotify:spotify%3Atrack%3A4LI1?sid=12",
                              TargetTrackMetadata("00030020spotify%3Atrack%3A4LI1", "",
                                                  "SA_RINCON3079_X_#Svc3079-0-Token")>>
           /\ m = Apple("song:4LI1") => last.res = apple("song%3A4LI1")
           /\ m = Apple("librarytrack:a.1") => last.res = apple("librarytrack%3Aa.1")
           /\ m = Apple("album:10") =>
                 /\ last.res # NoneT
                 /\ last.res[1] = "x-rincon-cpcontainer:0004206calbum%3A10?sid=204"
           /\ m.item \in {"nocolon", "podcast:7"} => last.res = NoneT

\* C23, witness: the Apple librarytrack of the test was resolved.
C23_LibraryTrackResolved ==
    /\ last.op = "resolved"
    /\ last.media = Apple("librarytrack:a.1")
    /\ last.res # NoneT
    /\ last.res[1] = "x-sonos-http:librarytrack%3Aa.1.mp4?sid=204"

\* C24: while the Controller waits in select!, queued_event_handles is
\* empty: every receiver was folded into event_stream before.
C24_QueueEmptyInSelect ==
    pc = "select" => queued_event_handles = << >>

\* The UUID is listed in the stored topology.
InTopology(uuid) ==
    \E k \in DOMAIN Flatten(topology) : eq_ignore_ascii_case(Flatten(topology)[k].uuid, uuid)

\* C25: after every update_from_topology, one that returned an error
\* included, every record of speakerdata has its UUID in the stored
\* topology, and so the look-up of its coordinator finds a group.
C25_RegistryWithinTopology ==
    \A i \in DOMAIN speakerdata :
       /\ InTopology(speakerdata[i].uuid)
       /\ coordinator_uuid(topology, speakerdata[i].uuid) # None

\* The step handled a TopoUpdate event.
TopologyHandled == last.op = "event" /\ last.ev.type = "TopoUpdate"

\* C26: when the Speaker of a new UUID cannot be built while a topology is
\* applied, the update still completes: the topology is stored, and every
\* entry whose device answers has its record, with the name of the entry.
C26_FailedEntryOnlyDropped ==
    TopologyHandled =>
        LET infos == Flatten(last.ev.topology) IN
        /\ last.ap.ok
        /\ \A k \in DOMAIN infos :
              from_speaker_info(infos[k].uuid, online) =>
                 \E i \in DOMAIN speakerdata :
                    /\ eq_ignore_ascii_case(speakerdata[i].uuid, infos[k].uuid)
                    /\ speakerdata[i].name = infos[k].name

\* C27: after a TopoUpdate(t) was handled the stored topology is t.
C27_TopologyReplaced ==
    TopologyHandled => topology = last.ev.topology

\* The step handled the SubscribeError of an AVTransport subscription.
TransportLost(l) == l.op = "event" /\ l.ev.type = "SubscribeError" /\ l.ev.urn = AVT

\* The record of the speaker the event l names has a worker of its own that
\* is alive and is not the one that reported the loss.
NewWorkerAttached(l) ==
    \E i \in DOMAIN speakerdata' :
       /\ eq_ignore_ascii_case(speakerdata'[i].uuid, l.ev.uuid)
       /\ speakerdata'[i].sub \notin {NoSub, l.w}
       /\ workers'[speakerdata'[i].sub].st \in Alive

\* The record of the speaker the event l names has no Subscriber.
SlotEmpty(l) ==
    \E i \in DOMAIN speakerdata' :
       /\ eq_ignore_ascii_case(speakerdata'[i].uuid, l.ev.uuid)
       /\ speakerdata'[i].sub = NoSub

\* C28: when the SubscribeError of an AVTransport subscription is handled
\* and a record has the UUID, a new worker is attached to the record if the
\* Speaker can be built again, and the record is left without Subscriber if
\* it cannot; when no record has the UUID nothing changes.
C28_TransportLostHandled ==
    [][TransportLost(last') =>
          IF FindUuid(speakerdata, last'.ev.uuid) = 0
          THEN UNCHANGED <<speakerdata, topology, topology_subscription>>
          ELSE IF from_speaker_info(last'.ev.uuid, online)
               THEN NewWorkerAttached(last')
               ELSE SlotEmpty(last')]_vars

\* The worker w is the live worker of an AVTransport subscription.
LiveWorker(w) == w # NoSub /\ workers[w].st \in Alive

\* The worker w has published SubscribeError for the UUID and the Controller
\* has not taken it from the channel yet.
LossPending(w, uuid) ==
    /\ w # NoSub
    /\ workers[w].rx
    /\ workers[w].unseen
    /\ workers[w].val = SubscribeError(uuid, AVT)

\* C29: after every update_from_topology, every record whose device offers
\* AVTransport has a live worker attached, or the SubscribeError of its
\* worker is waiting for the Controller.
C29_WorkerOrLossPending ==
    last.ap.done =>
        \A i \in DOMAIN speakerdata :
           find_service(DeviceOf(speakerdata[i].uuid), AVT) =>
              \/ LiveWorker(speakerdata[i].sub)
              \/ LossPending(speakerdata[i].sub, speakerdata[i].uuid)


\* The worker w goes on as it was: it runs, and its channel holds what it
\* held.
Continues(w) == workers'[w] = workers[w]

\* The worker w sent SubscribeError once and ended; the send stored the event
\* when a receiver was left.
LostAndEnded(w) ==
    \/ /\ ~workers[w].rx
       /\ workers'[w] = FreeWorker
    \/ /\ workers'[w].st = "failed"
       /\ workers'[w].lost = workers[w].lost + 1
       /\ IF workers[w].rx
          THEN /\ workers'[w].val = SubscribeError(workers[w].uuid, workers[w].svc)
               /\ workers'[w].ver = workers[w].ver + 1
               /\ workers'[w].unseen
          ELSE /\ workers'[w].val = workers[w].val
               /\ workers'[w].ver = workers[w].ver

\* C30: when the renewal fails, the stream gives an error or the stream
\* ends, the worker makes one fresh subscribe attempt: when it succeeds
\* (the device answers) the worker goes on and publishes nothing; when it
\* fails the worker publishes SubscribeError once and ends. A renewal that
\* succeeds publishes nothing.
C30_OneFreshSubscribe ==
    [][\A w \in WorkerIds :
          (WStreamError(w) \/ WRenewFailed(w) \/ WRenewed(w)) =>
              IF workers[w].dev \in online THEN Continues(w) ELSE LostAndEnded(w)]_vars

\* A worker that published an event while it ran has lost its subscription
\* since: its channel holds SubscribeError and its task has ended.
C30_LostWhileRunning ==
    \E w \in WorkerIds :
       /\ workers[w].st = "failed"
       /\ workers[w].ver >= 2
       /\ workers[w].lost = 1
       /\ workers[w].val = SubscribeError(workers[w].uuid, workers[w].svc)


\* No task of a Subscriber the System holds is cancelled in the step.
HandlesKept ==
    /\ UNCHANGED <<speakerdata, topology, topology_subscription>>
    /\ \A w \in Handles(speakerdata, topology_subscription) :
          workers'[w].st = "aborted" => workers[w].st = "aborted"

\* q continues p: what was in the channel is still at its head.
Extends(q, p) == Len(q) >= Len(p) /\ SubSeq(q, 1, Len(p)) = p

\* C31: from the step that takes a command from the channel to the step that
\* sends its Response, the Controller takes no other command and sends no
\* other Response, and the registry, the topology and the Subscribers the
\* System holds stay as they are; the step that answers sends one Response,
\* for the command taken. The worker tasks publish meanwhile.
C31_SerialOnFixedView ==
    [][pc = "handling" =>
          /\ HandlesKept
          /\ Extends(cmdq', cmdq)
          /\ IF pc' = "handling"
             THEN UNCHANGED <<replies, queued_event_handles, event_stream>>
             ELSE /\ last'.op = "dispatch" /\ last'.id = InFlight
                  /\ replies' = [replies EXCEPT ![InFlight] = @ + 1]]_vars

\* While the Controller awaits the remote calls of the first command, the
\* second command waits in the channel and a worker holds a topology the
\* Controller has not applied.
C31_EventAndCommandWait ==
    /\ pc = "handling"
    /\ InFlight = 1
    /\ Len(cmdq) = 1
    /\ \E w \in Handles(speakerdata, topology_subscription) :
          /\ workers[w].unseen
          /\ workers[w].val.type = "TopoUpdate"
          /\ workers[w].val.topology # topology


\* C32: the Controller awaits in select! only while topology_subscription
\* is Some; with None at the top of the loop it runs init() before it
\* awaits a command or an event, and an init() that returns Ok leaves
\* topology_subscription Some and the registry not empty.
C32_AwaitsWithTopologyHandle ==
    /\ [](pc = "select" => topology_subscription # NoSub)
    /\ [](pc = "init" => topology_subscription = NoSub)
    /\ [][(pc = "init" /\ pc' = "select") =>
             topology_subscription' # NoSub /\ speakerdata' # << >>]_vars

\* The Controller is back in select! after a rediscovery that succeeded:
\* the step ran update_from_topology outside handle_event, after a worker
\* had published.
C32_Rediscovered ==
    /\ pc = "select"
    /\ last.op = "none"
    /\ last.ap.done
    /\ nevents > 0
    /\ speakerdata # << >>
    /\ topology_subscription # NoSub


\* No stream of event_stream holds a value the Controller has not taken.
NothingReady == \A w \in event_stream' : ~workers'[w].unseen

\* C33: after init() returned Err the Controller takes the commands in the
\* channel until try_recv finds it empty, then the events event_stream
\* has ready until it has none, then sleeps, and only after the sleep runs
\* init() again (or goes to select! when an event of the drain restored the
\* topology subscription); with the channel closed it leaves the loop
\* instead. init() is entered from select! or from the sleep only.
C33_DrainBetweenAttempts ==
    [][/\ (pc = "init" /\ pc' # "init") => pc' \in {"select", "drain_cmds"}
       /\ (pc = "drain_cmds" /\ pc' # "drain_cmds") =>
             /\ pc' \in {"drain_events", "exited"}
             /\ cmdq = << >>
       /\ (pc = "drain_events" /\ pc' # "drain_events") =>
             /\ pc' = "sleep"
             /\ NothingReady
       /\ (pc = "sleep" /\ pc' # "sleep") => pc' \in {"init", "select"}
       /\ (pc' = "init" /\ pc # "init") => pc \in {"select", "sleep"}]_vars

\* The Controller sleeps before its next attempt: the command sent during
\* the recovery was answered in the drain and the channel is empty.
C33_SleepsAfterDrain ==
    /\ pc = "sleep"
    /\ cmdq = << >>
    /\ last.op = "none"
    /\ \E c \in CmdIds : replies[c] = 1
    /\ \A w \in event_stream : ~workers[w].unseen


\* The record the name addresses: the first whose name matches.
Addressed(name, i) ==
    /\ eq_ignore_ascii_case(speakerdata[i].name, name)
    /\ \A j \in 1..(i - 1) : ~eq_ignore_ascii_case(speakerdata[j].name, name)

\* The group g of the stored topology lists the speaker uuid.
Lists(g, uuid) ==
    \E k \in DOMAIN topology[g][2] : eq_ignore_ascii_case(topology[g][2][k].uuid, uuid)

\* The first group that lists the speaker is g, and its coordinator has no
\* record.
LedByStranger(uuid, g) ==
    /\ Lists(g, uuid)
    /\ \A h \in 1..(g - 1) : ~Lists(h, uuid)
    /\ \A i \in DOMAIN speakerdata : ~eq_ignore_ascii_case(speakerdata[i].uuid, topology[g][1])

\* No coordinator can be found for the name.
Unroutable(name) ==
    \/ \A i \in DOMAIN speakerdata : ~eq_ignore_ascii_case(speakerdata[i].name, name)
    \/ \E i \in DOMAIN speakerdata :
          /\ Addressed(name, i)
          /\ \/ \A g \in DOMAIN topology : ~Lists(g, speakerdata[i].uuid)
             \/ \E g \in DOMAIN topology : LedByStranger(speakerdata[i].uuid, g)

\* C34: an action other than Exists addressed to a name that matches no
\* record, or whose speaker no group of the stored topology lists, or whose
\* coordinator has no record, is answered NotOk, once, and no remote call
\* is made.
C34_NoRouteNotOk ==
    [][(last'.op = "dispatch" /\ last'.action.t # "Exists" /\ Unroutable(last'.name)) =>
          /\ last'.resp = "NotOk"
          /\ last'.calls = << >>
          /\ replies' = [replies EXCEPT ![last'.id] = @ + 1]]_vars

\* PlayNow was addressed to a speaker whose group is led by a speaker the
\* registry has no record of, and was answered NotOk.
C34_CoordinatorUnknown ==
    /\ last.op = "dispatch"
    /\ last.action.t = "PlayNow"
    /\ last.resp = "NotOk"
    /\ \E i \in DOMAIN speakerdata :
          /\ Addressed(last.name, i)
          /\ \E g \in DOMAIN topology : LedByStranger(speakerdata[i].uuid, g)


\* The record of the coordinator the dispatch last records was routed to
\* (position 0: to none).
RoutedTo == get_coordinatordata_for_name(speakerdata, topology, last.name)

\* The value of the first CurrentTrack entry of the transport data td, None
\* when it has no such entry.
CachedTrack(td) ==
    IF \E k \in DOMAIN td : eq_ignore_ascii_case(td[k][1], "CurrentTrack")
    THEN td[CHOOSE k \in DOMAIN td :
               /\ eq_ignore_ascii_case(td[k][1], "CurrentTrack")
               /\ \A j \in 1..(k - 1) : ~eq_ignore_ascii_case(td[j][1], "CurrentTrack")][2]
    ELSE None

\* The current track queue_as_next works with: the cached CurrentTrack when
\* there is one (0 when it is not a number), else the track number the
\* speaker answers (live: -1 the call failed, 0 it answered no track).
CurrentOf(td, live) ==
    IF CachedTrack(td) # None
    THEN (IF CachedTrack(td) = "1" THEN 1 ELSE IF CachedTrack(td) = "3" THEN 3 ELSE 0)
    ELSE (IF live = -1 THEN 0 ELSE live)

\* The positions in last.calls of the calls of the method op.
CallsOf(op) == {k \in DOMAIN last.calls : last.calls[k].op = op}

PlayNowSteps == <<"clear_queue", "queue_next", "set_transport_uri", "play">>

\* The calls the dispatch made that change the speaker (browse reads).
Changing == SelectSeq(last.calls, LAMBDA c : c.op # "browse")

\* The media of the dispatch cannot be resolved on the coordinator it was
\* routed to.
Unresolved ==
    get_uri_and_metadata(last.action.m, speakerdata[RoutedTo].uuid, last.o).res = NoneT

\* C36: a PlayNow routed to a coordinator makes its calls in the order
\* clear_queue, queue_next, set_transport_uri, play, and the first call that
\* fails is its last call and it answers NotOk; with media that cannot be
\* resolved it makes no call that changes the speaker and answers NotOk;
\* answered Ok it made the four calls.
C36_StopsAtFirstFailure ==
    (last.op = "dispatch" /\ last.action.t = "PlayNow" /\ RoutedTo # 0) =>
        /\ \A k \in DOMAIN last.calls :
              ~last.calls[k].ok => (k = Len(last.calls) /\ last.resp = "NotOk")
        /\ Len(Changing) <= Len(PlayNowSteps)
        /\ \A k \in DOMAIN Changing : Changing[k].op = PlayNowSteps[k]
        /\ Unresolved => (Changing = << >> /\ last.resp = "NotOk")
        /\ last.resp = "Ok" <=>
              (Len(Changing) = Len(PlayNowSteps) /\ \A k \in DOMAIN last.calls : last.calls[k].ok)

\* PlayNow cleared the queue, queue_next failed, and nothing was called
\* after it: the answer was NotOk.
C36_QueueNextFailed ==
    /\ last.op = "dispatch" /\ last.action.t = "PlayNow" /\ last.resp = "NotOk"
    /\ Len(Changing) = 2
    /\ Changing[1].op = "clear_queue" /\ Changing[1].ok
    /\ Changing[2].op = "queue_next" /\ ~Changing[2].ok


\* The step started a worker for the AVTransport service of uuid.
StartedFor(uuid) ==
    \E w \in WorkerIds :
       /\ workers[w].st = "free"
       /\ workers'[w].st # "free"
       /\ workers'[w].svc = AVT
       /\ eq_ignore_ascii_case(workers'[w].uuid, uuid)

\* The record a of before the step and the record b of after it are of the
\* same speaker, and b has the transport data and the Subscriber of a, whose
\* task is as it was.
KeptAs(a, b) ==
    /\ b.uuid = a.uuid
    /\ b.td = a.td
    /\ b.sub = a.sub
    /\ a.sub # NoSub => workers'[a.sub].st = workers[a.sub].st
    /\ ~StartedFor(a.uuid)

\* C37: an update_from_topology leaves, in a record it keeps, the UUID, the
\* transport data and the transport subscription as they were, the task
\* of the subscription runs on, and no worker is started for the speaker.
C37_KeptRecordsUntouched ==
    [][last'.ap.done =>
          \A i \in DOMAIN speakerdata : \A j \in DOMAIN speakerdata' :
             eq_ignore_ascii_case(speakerdata[i].uuid, speakerdata'[j].uuid) =>
                KeptAs(speakerdata[i], speakerdata'[j])]_vars

\* A TopoUpdate was applied that renamed the speaker B and moved it to
\* another address: its record has the new name and location, the transport
\* data it had cached and its worker, which runs.
C37_RenamedWithCache ==
    /\ last.op = "event" /\ last.ev.type = "TopoUpdate" /\ last.ap.ok
    /\ \E i \in DOMAIN speakerdata :
          /\ speakerdata[i].uuid = "RINCON_B"
          /\ speakerdata[i].name = "Kitchen" /\ speakerdata[i].loc = "L2"
          /\ speakerdata[i].td # << >>
          /\ speakerdata[i].sub # NoSub
          /\ workers[speakerdata[i].sub].st = "running"


\* The worker tasks of the ZoneGroupTopology service that are alive.
TopologyTasks == {w \in WorkerIds : workers[w].svc = ZGT /\ workers[w].st \in Alive}

\* C38: while the Controller awaits in select! at most one task of a
\* ZoneGroupTopology worker is alive, and it is the task of
\* topology_subscription; a TopoUpdate the Controller handles was yielded by
\* the receiver of the Subscriber that topology_subscription held, never by
\* that of one it had replaced.
C38_OneTopologyWorker ==
    /\ [](pc = "select" =>
             /\ Cardinality(TopologyTasks) <= 1
             /\ TopologyTasks \subseteq {topology_subscription})
    /\ [][(last'.op = "event" /\ last'.ev.type = "TopoUpdate") =>
             last'.w = topology_subscription]_vars

\* The Controller replaced the topology subscription it had lost and awaits
\* again: the task of the replacement is the one topology task alive, and
\* the slot of the worker it replaced still holds its channel.
C38_ReplacedAfterLoss ==
    /\ pc = "select"
    /\ last.op = "resubscribe"
    /\ last.now # None
    /\ TopologyTasks = {topology_subscription}
    /\ workers[last.w].svc = ZGT
    /\ last.w # topology_subscription


\* C39: no two records of speakerdata have UUIDs that are equal ignoring
\* ASCII case, whatever topologies were applied, those that list a UUID
\* twice or in another letter case included.
C39_OneRecordPerSpeaker ==
    \A i, j \in DOMAIN speakerdata :
       i # j => ~eq_ignore_ascii_case(speakerdata[i].uuid, speakerdata[j].uuid)

\* The topology that lists both speakers twice was applied: the registry
\* holds one record of each.
C39_ListedTwiceOneRecord ==
    /\ last.ap.done /\ last.ap.ok
    /\ topology = TopoTwice
    /\ Len(speakerdata) = 2


\* The event is one of the AVTransport service: a change of the transport
\* or the loss of the subscription.
OfTransport(ev) ==
    \/ ev.type = "AVTransUpdate"
    \/ (ev.type = "SubscribeError" /\ ev.urn = AVT)

\* C40: every worker of the AVTransport service was started with a UUID,
\* every AVTransUpdate and every SubscribeError of that service a channel
\* holds carries it, and so does every such event handle_event is given:
\* the unwrap of the UUID finds Some.
C40_TransportEventsOwned ==
    /\ [](\A w \in WorkerIds :
             /\ workers[w].svc = AVT => workers[w].uuid # None
             /\ OfTransport(workers[w].val) => workers[w].val.uuid # None)
    /\ [][(last'.op = "event" /\ OfTransport(last'.ev)) => last'.ev.uuid # None]_vars

\* The Controller handled the SubscribeError of an AVTransport worker: the
\* event named the speaker, which has a record.
C40_OwnedLossHandled ==
    /\ last.op = "event"
    /\ last.ev.type = "SubscribeError"
    /\ last.ev.urn = AVT
    /\ \E i \in DOMAIN speakerdata : speakerdata[i].uuid = last.ev.uuid

====
